---- MODULE Spec2Model ----
(***************************************************************************)
(* A model of the sync orchestrator of react-native-offline-sync:          *)
(* SyncEngine (sync, queueOperation, initialize, destroy, listeners),      *)
(* the parts of NetworkDetector, SyncQueueManager, PushSynchronizer and    *)
(* PullSynchronizer it drives, and the suspension points between them.     *)
(*                                                                         *)
(* JavaScript runs one callback at a time: an action is the code that runs *)
(* from one suspension point (await) to the next.                          *)
(***************************************************************************)
EXTENDS Integers, Sequences, FiniteSets

VARIABLES
    state,              \* SyncEngine.state: the fields of the object it refers to
    held,               \* per listener: it was last called with the object that
                        \* this.state still refers to (it holds the engine's own object)
    called,             \* the listeners that notifyListeners called in this step
    listeners,          \* SyncEngine.listeners, in insertion order
    net,                \* NetworkDetector.currentStatus
    netSubscribed,      \* NetworkDetector.unsubscribe is set
    reconnectListeners, \* NetworkDetector.listeners: the engine's reconnect callbacks
    syncIntervalId,     \* SyncEngine.syncIntervalId is set (ticker running)
    isInitialized,      \* SyncEngine.isInitialized
    initPc,             \* the initialize() calls in flight: how many wait at each await
    queue,              \* the rows of sync_queue, in insertion order
    attempts,           \* the sync() calls that are past their guards, oldest first
    qop,                \* position of the queueOperation() call in flight
    out,                \* what the sync() call that returned in this step returned
    records,            \* the application records of the local store, by local id
    exec,               \* position of the useOptimisticUpdate execute() call in flight
    told,               \* the statuses the latest updateStatus passed to a registered
                        \* NetworkDetector listener, one per call
    destroyed,          \* destroy() has been called, and initialize() not since
    table,              \* the rows of the synced table as pull() reads and writes
                        \* them: sync metadata and a domain field
    watermark,          \* AsyncStorage['@offlineSync:lastSyncAt']
    pull,               \* the pull() call in flight, called on the PullSynchronizer
    feed,               \* the change set the server answers a pull request with
    subscriptions,      \* the NetInfo event subscriptions NetworkDetector.initialize
                        \* has made and nobody has removed
    timers,             \* the setInterval timers startBackgroundSync has started and
                        \* nobody has cleared
    retry,              \* the retryWithBackoff call in flight
    pushBatchSize       \* SyncEngine.config.pushBatchSize

vars == <<state, held, called, listeners, net, netSubscribed, reconnectListeners,
          syncIntervalId, isInitialized, initPc, queue, attempts, qop, out,
          records, exec, told, destroyed, table, watermark, pull, feed, subscriptions,
          timers, retry, pushBatchSize>>

----------------------------------------------------------------------------
(* Bounds *)

MaxProcs == 2
NumListeners == 2
MaxQueue == 1
MaxClock == 1
MaxRecords == 1
MaxChanges == 1
MaxInits == 2
MaxTries == 3
\* the transport calls of one push() that are counted (more than a push()
\* with a batch size of 1 or more makes); a push() whose loop variable runs
\* below 0 is followed for as many calls
MaxCalls == MaxQueue + 2

(* Configuration (SyncEngineConfig) *)

MaxRetries == 1
PushBatchSize == 1
EnableBackgroundSync == TRUE
SyncOnReconnect == TRUE

Listeners == 1..NumListeners
ItemIds == 1..(MaxQueue + 1)
Times == 1..MaxClock
RecordIds == 1..MaxRecords
\* the local ids of a table with room for one record more than the
\* application writes
LocalIds == 1..(MaxRecords + 1)

\* the listeners whose callback throws
ThrowingListeners == {l \in Listeners : l % 2 = 1}

NoError == "null"
ErrInProgress == "Sync already in progress"
ErrOffline == "Device is offline"
ErrDatabase == "Database error"
ErrPull == "Pull failed"
ErrPushFailed == "Push request failed"
ErrNetwork == "Network error"
ErrItem == "validation"
ErrType == "Cannot read properties of undefined"

Range(s) == {s[i] : i \in 1..Len(s)}

Min(S) == CHOOSE x \in S : \A y \in S : x <= y

Remove(s, i) == SubSeq(s, 1, i - 1) \o SubSeq(s, i + 1, Len(s))

----------------------------------------------------------------------------
(* Engine state *)

InitialState ==
    [status |-> "idle", lastSyncAt |-> 0, pendingChanges |-> 0,
     error |-> NoError, isSyncing |-> FALSE]

\* { ...this.state, ...updates }
Spread(old, updates) ==
    [f \in DOMAIN old |-> IF f \in DOMAIN updates THEN updates[f] ELSE old[f]]

\* the forEach loop of notifyListeners from position i on: the listeners that
\* get called; without the try/catch a listener that throws ends the loop
RECURSIVE CallListeners(_, _, _)
CallListeners(ls, i, caught) ==
    IF i > Len(ls) THEN {}
    ELSE {ls[i]} \cup (IF ls[i] \in ThrowingListeners /\ ~caught THEN {}
                       ELSE CallListeners(ls, i + 1, caught))

\* (a variant without the try/catch around the call of a listener)
NotifyListenersUnguarded(ls) == CallListeners(ls, 1, FALSE)

\* listeners.forEach(listener => { try { listener(this.state) } catch {} })
NotifyListeners(ls) == CallListeners(ls, 1, TRUE)

\* this.state = { ...this.state, ...updates }; this.notifyListeners():
\* a new object, and the listeners called are called with that very object
UpdateStateIn(old, updates) ==
    /\ state' = Spread(old, updates)
    /\ called' = NotifyListeners(listeners)
    /\ held' = [l \in Listeners |-> l \in NotifyListeners(listeners)]

UpdateState(updates) == UpdateStateIn(state, updates)

\* this.state.pendingChanges = count: a write into the object this.state
\* refers to; no new object, nobody is called
SetPendingCount(old, count) == [old EXCEPT !.pendingChanges = count]

\* const count = await getPendingCount(); this.state.pendingChanges = count
UpdatePendingCount(count) ==
    /\ state' = SetPendingCount(state, count)
    /\ called' = {}
    /\ UNCHANGED held

\* SyncQueueManager.getPendingCount: the row count, 0 when the lookup fails
GetPendingCount(q, dbOk) == IF dbOk THEN Len(q) ELSE 0

----------------------------------------------------------------------------
(* NetworkDetector *)

\* NetworkStatus: what currentStatus can hold
NetStates ==
    [isConnected : BOOLEAN, isInternetReachable : {"true", "false", "null"},
     type : {"wifi", "cellular", "null"}]

\* NetInfoState: what NetInfo.fetch resolves to and what it passes to the
\* subscriber; isConnected and isInternetReachable can be null
NetInfoStates ==
    [isConnected : {"true", "false", "null"}, isInternetReachable : {"true", "false", "null"},
     type : {"wifi", "cellular"}]

\* the status updateStatus stores for a NetInfoState: isConnected ?? false,
\* isInternetReachable ?? null, type || null
ToStatus(e) ==
    [isConnected |-> e.isConnected = "true", isInternetReachable |-> e.isInternetReachable,
     type |-> e.type]

\* currentStatus of a new NetworkDetector
InitialStatus == [isConnected |-> FALSE, isInternetReachable |-> "null", type |-> "null"]

\* the status of a device that is online
OnlineStatus == [isConnected |-> TRUE, isInternetReachable |-> "true", type |-> "wifi"]

IsOnline(st) == st.isConnected /\ st.isInternetReachable # "false"

\* (a variant that also compares the connection type)
StatusChangedOrType(prev, cur) == prev # cur

\* statusChanged of updateStatus
StatusChanged(prev, cur) ==
    prev.isConnected # cur.isConnected \/ prev.isInternetReachable # cur.isInternetReachable

\* notifyListeners of the NetworkDetector: the calls a registered listener
\* gets, each in a try/catch
NotifyStatus(cur) == <<cur>>

----------------------------------------------------------------------------
(* SyncEngine.sync *)

\* what a step hands back to the caller of sync(): nothing, or a SyncResult
\* (threw: the promise was rejected instead; passed: the call had got past its
\* guards, so it returns in a later step than the one of the call); its stats
\* are those of the catch block, all 0
Result(success, err, threw, passed) ==
    [kind |-> "sync", success |-> success, error |-> err, threw |-> threw, passed |-> passed,
     pushedCount |-> 0, failedCount |-> 0]

NoOut == [kind |-> "none", success |-> FALSE, error |-> NoError, threw |-> FALSE,
          passed |-> FALSE, pushedCount |-> 0, failedCount |-> 0]

\* a sync() call past its guards: where it waits, the pending items push() read
\* and the position of the batch it is sending (via: push() was called by
\* sync(), or directly); pushedCount and failedCount are the sums push() keeps,
\* removed and bumped count the rows its pushBatch calls have deleted and
\* the rows whose retry_count they have increased
NewAttempt == [pc |-> "fetch", items |-> <<>>, idx |-> 1, via |-> "sync",
               batchSize |-> PushBatchSize, calls |-> 0,
               pushedCount |-> 0, failedCount |-> 0, removed |-> 0, bumped |-> 0]

\* a push() called on the PushSynchronizer directly
NewPush == [pc |-> "fetch", items |-> <<>>, idx |-> 1, via |-> "push",
            batchSize |-> PushBatchSize, calls |-> 0,
            pushedCount |-> 0, failedCount |-> 0, removed |-> 0, bumped |-> 0]

\* (a variant that does not clear the error of the previous attempt)
SyncingUpdateKeepsError == [status |-> "syncing", isSyncing |-> TRUE]

\* the updates of the three updateState calls of sync()
SyncingUpdate == [status |-> "syncing", isSyncing |-> TRUE, error |-> NoError]

IdleUpdate(t) == [status |-> "idle", lastSyncAt |-> t, isSyncing |-> FALSE, error |-> NoError]

\* (a variant that also resets lastSyncAt)
CatchUpdateResets(err) ==
    [status |-> "error", lastSyncAt |-> 0, isSyncing |-> FALSE, error |-> err]

CatchUpdate(err) == [status |-> "error", isSyncing |-> FALSE, error |-> err]

\* (a variant that rethrows, as the catch blocks of push() and pull() do)
CatchResultRethrows(err, passed) == Result(FALSE, err, TRUE, passed)

\* the catch block of sync() returns a result, it does not rethrow
CatchResult(err, passed) == Result(FALSE, err, FALSE, passed)

\* (a variant without the reachability guard)
OfflineGuardSkipped(st) == FALSE

\* the reachability guard of sync(): throw unless networkDetector.isOnline()
OfflineGuard(st) == ~IsOnline(st)

\* the catch block of sync(), taken by a call that threw at a guard
Reject(err) ==
    /\ UpdateState(CatchUpdate(err))
    /\ out' = CatchResult(err, FALSE)
    /\ UNCHANGED attempts

\* sync() from its call to its first suspension point (inside push());
\* st is the detector's status at the time of the call
SyncCall(st) ==
    IF state.isSyncing THEN Reject(ErrInProgress)
    ELSE IF OfflineGuard(st) THEN Reject(ErrOffline)
    ELSE /\ Len(attempts) < MaxProcs
         /\ UpdateState(SyncingUpdate)
         /\ attempts' = Append(attempts, [NewAttempt EXCEPT !.batchSize = pushBatchSize])
         /\ out' = NoOut

\* the catch block of sync(), taken by attempt i when push() or pull() threw
SyncFail(i, err) ==
    /\ UpdateState(CatchUpdate(err))
    /\ attempts' = Remove(attempts, i)
    /\ out' = CatchResult(err, TRUE)

----------------------------------------------------------------------------
(* SyncQueueManager and PushSynchronizer *)

Has(q, id) == \E i \in 1..Len(q) : q[i].id = id

\* SyncQueueItemModel -> SyncQueueItem: the copy of a row that push() works on
ModelToQueueItem(row) == [id |-> row.id, recordId |-> row.recordId]

\* (a variant that returns every row, as getQueuedItems does)
RECURSIVE GetPendingItemsUnfiltered(_, _)
GetPendingItemsUnfiltered(q, maxRetries) ==
    IF q = <<>> THEN <<>>
    ELSE <<ModelToQueueItem(Head(q))>> \o GetPendingItemsUnfiltered(Tail(q), maxRetries)

\* getPendingItems: the rows with retry_count < maxRetries, in queue order
RECURSIVE GetPendingItems(_, _)
GetPendingItems(q, maxRetries) ==
    IF q = <<>> THEN <<>>
    ELSE (IF Head(q).retryCount < maxRetries THEN <<ModelToQueueItem(Head(q))>> ELSE <<>>)
         \o GetPendingItems(Tail(q), maxRetries)

\* getFailedItems: the rows with retry_count >= maxRetries
RECURSIVE GetFailedItems(_, _)
GetFailedItems(q, maxRetries) ==
    IF q = <<>> THEN <<>>
    ELSE (IF Head(q).retryCount >= maxRetries THEN <<ModelToQueueItem(Head(q))>> ELSE <<>>)
         \o GetFailedItems(Tail(q), maxRetries)

\* addToQueue: the row that syncQueueCollection.create appends
AddToQueue(q, id, recordId) ==
    Append(q, [id |-> id, retryCount |-> 0, errorMessage |-> NoError, recordId |-> recordId])

\* (a variant that counts down)
IncrementRetryDecrements(q, id, msg) ==
    [i \in 1..Len(q) |-> IF q[i].id = id
                         THEN [q[i] EXCEPT !.retryCount = @ - 1, !.errorMessage = msg]
                         ELSE q[i]]

\* incrementRetry on a row that exists (find() throws when it does not)
IncrementRetry(q, id, msg) ==
    [i \in 1..Len(q) |-> IF q[i].id = id
                         THEN [q[i] EXCEPT !.retryCount = @ + 1, !.errorMessage = msg]
                         ELSE q[i]]

\* (a variant that leaves the row)
MarkAsProcessedKeeps(q, id) == q

\* markAsProcessed on a row that exists
MarkAsProcessed(q, id) == SelectSeq(q, LAMBDA item : item.id # id)

NoRecord == [exists |-> FALSE, serverId |-> "none", syncStatus |-> "none"]

\* updateLocalRecord: result is "ok" (the result carries a serverId) or "okNoId";
\* when the record is gone or the write fails (~ok) the error is swallowed
UpdateLocalRecord(recs, recordId, result, ok) ==
    IF ok /\ recs[recordId].exists
    THEN [recs EXCEPT ![recordId] =
            [exists |-> TRUE,
             serverId |-> IF result = "ok" THEN "s1" ELSE @.serverId,
             syncStatus |-> "synced"]]
    ELSE recs

\* the result loop of pushBatch, from position i on. sc is what the batch
\* meets: the response and the store writes that fail. threw: the loop was left
\* by an exception (a result that is missing, a row that is gone, a queue write
\* that fails), msg is its message
RECURSIVE ProcessResults(_, _, _, _, _, _, _)
ProcessResults(q, recs, batch, sc, i, pushed, failed) ==
    IF i > Len(batch)
    THEN [queue |-> q, records |-> recs, pushed |-> pushed, failed |-> failed,
          threw |-> FALSE, msg |-> NoError]
    ELSE IF i > Len(sc.results)
    THEN [queue |-> q, records |-> recs, pushed |-> pushed, failed |-> failed,
          threw |-> TRUE, msg |-> ErrType]
    ELSE IF sc.results[i] = "err"
    THEN IF sc.loopFail = i \/ ~Has(q, batch[i].id)
         THEN [queue |-> q, records |-> recs, pushed |-> pushed, failed |-> failed,
               threw |-> TRUE, msg |-> ErrDatabase]
         ELSE ProcessResults(IncrementRetry(q, batch[i].id, ErrItem), recs, batch, sc,
                             i + 1, pushed, failed + 1)
    ELSE LET written == UpdateLocalRecord(recs, batch[i].recordId, sc.results[i],
                                          i \notin sc.wbFail)
         IN  IF sc.loopFail = i \/ ~Has(q, batch[i].id)
             THEN [queue |-> q, records |-> written, pushed |-> pushed, failed |-> failed,
                   threw |-> TRUE, msg |-> ErrDatabase]
             ELSE ProcessResults(MarkAsProcessed(q, batch[i].id), written, batch, sc,
                                 i + 1, pushed + 1, failed)

\* the catch block of pushBatch: incrementRetry for every item of the batch,
\* counting those for which it did not throw
RECURSIVE BumpAll(_, _, _, _, _, _)
BumpAll(q, batch, i, failed, msg, catchFail) ==
    IF i > Len(batch)
    THEN [queue |-> q, failed |-> failed]
    ELSE IF Has(q, batch[i].id) /\ i \notin catchFail
    THEN BumpAll(IncrementRetry(q, batch[i].id, msg), batch, i + 1, failed + 1, msg, catchFail)
    ELSE BumpAll(q, batch, i + 1, failed, msg, catchFail)

\* the sequences over S of length at most n
SeqsUpTo(S, n) == UNION {[1..k -> S] : k \in 0..n}

\* the responses apiClient.push can give for a batch: it throws, it answers
\* success = false, or it answers with a results array (which can be shorter
\* than the batch)
Responses(batch) ==
    {[kind |-> k, results |-> <<>>] : k \in {"throw", "fail"}}
    \cup {[kind |-> "success", results |-> r] :
            r \in SeqsUpTo({"ok", "okNoId", "err"}, Len(batch))}

\* what a pushBatch call can meet: a response, the queue write of the result
\* loop that fails (loopFail, 0: none), the write-backs that fail (wbFail) and
\* the incrementRetry calls of the catch block that fail (catchFail); each
\* fault named is one the call can run into
ScenariosOf(q, batch, resp) ==
    LET n == Len(resp.results)
        rows == {i \in 1..Len(batch) : Has(q, batch[i].id)}
        lfs == IF resp.kind = "success" THEN {0} \cup (rows \cap 1..n) ELSE {0}
        clean(lf) == resp.kind = "success" /\ n = Len(batch) /\ lf = 0
                     /\ rows = 1..Len(batch)
    IN  UNION {{[kind |-> resp.kind, results |-> resp.results,
                 loopFail |-> lf, wbFail |-> wb, catchFail |-> cf] :
                   wb \in SUBSET {i \in 1..n : resp.results[i] # "err"
                                               /\ (lf = 0 \/ i <= lf)},
                   cf \in IF clean(lf) THEN {{}} ELSE SUBSET rows} : lf \in lfs}

Scenarios(q, batch) == UNION {ScenariosOf(q, batch, resp) : resp \in Responses(batch)}

\* (a variant whose catch block counts the whole batch as failed)
PushBatchCountsAll(q, recs, batch, sc) ==
    LET r == IF sc.kind = "success" THEN ProcessResults(q, recs, batch, sc, 1, 0, 0)
             ELSE [queue |-> q, records |-> recs, pushed |-> 0, failed |-> 0, threw |-> TRUE,
                   msg |-> IF sc.kind = "throw" THEN ErrNetwork ELSE ErrPushFailed]
    IN  IF r.threw
        THEN [queue |-> BumpAll(r.queue, batch, 1, 0, r.msg, sc.catchFail).queue,
              records |-> r.records, pushed |-> 0, failed |-> Len(batch), caught |-> TRUE]
        ELSE [queue |-> r.queue, records |-> r.records, pushed |-> r.pushed,
              failed |-> r.failed, caught |-> FALSE]

\* pushBatch, from the transport's answer on
PushBatch(q, recs, batch, sc) ==
    LET r == IF sc.kind = "success" THEN ProcessResults(q, recs, batch, sc, 1, 0, 0)
             ELSE [queue |-> q, records |-> recs, pushed |-> 0, failed |-> 0, threw |-> TRUE,
                   msg |-> IF sc.kind = "throw" THEN ErrNetwork ELSE ErrPushFailed]
    IN  IF r.threw
        THEN LET c == BumpAll(r.queue, batch, 1, 0, r.msg, sc.catchFail)
             IN  [queue |-> c.queue, records |-> r.records, pushed |-> 0,
                  failed |-> c.failed, caught |-> TRUE]
        ELSE [queue |-> r.queue, records |-> r.records, pushed |-> r.pushed,
              failed |-> r.failed, caught |-> FALSE]

\* items.slice(i, i + batchSize), positions counted from 1: a start or an
\* end before the first item counts from the end of the array, one beyond the
\* last item is the end of the array, and an end that is not after the start
\* gives the empty array
Slice(items, i, batchSize) ==
    LET n == Len(items)
        Clamp(k) == IF k < 0 THEN (IF n + k < 0 THEN 0 ELSE n + k)
                    ELSE (IF k > n THEN n ELSE k)
    IN  SubSeq(items, Clamp(i - 1) + 1, Clamp(i - 1 + batchSize))

NoExec == [pc |-> "idle", rec |-> 0]

----------------------------------------------------------------------------
(* PullSynchronizer *)

\* applyServerData: the sync metadata it writes; id is the id of the mapping
\* applied ("none" when the mapping has no id)
ApplyServerData(id) == [exists |-> TRUE, serverId |-> id, syncStatus |-> "synced"]

\* collection.query(Q.where('server_id', id)).fetch(): the local ids found
ByServerId(recs, id) == {r \in DOMAIN recs : recs[r].exists /\ recs[r].serverId = id}

\* updateRecord: newer says that serverData.updated_at > server_updated_at of
\* the local record (which a record found by server_id has), verdict is what
\* the resolver returns when asked
UpdateRecord(rec, id, newer, verdict) ==
    IF rec.syncStatus = "pending" /\ newer
    THEN CASE verdict = "local" -> rec
           [] verdict = "server" -> ApplyServerData(id)
           [] verdict = "merged" -> ApplyServerData(id)
           [] OTHER -> ApplyServerData("none")
    ELSE ApplyServerData(id)

\* what a pull response holds for the table: nothing, or one entry for the
\* server record s1 in one of the stanzas; ok: its apply does not throw
PullChanges ==
    {[stanza |-> "none", newer |-> FALSE, verdict |-> "local", ok |-> TRUE]}
    \cup [stanza : {"created", "updated", "deleted"}, newer : BOOLEAN,
          verdict : {"local", "server", "merged", "mergedNoId"}, ok : BOOLEAN]

\* (creating a record needs a local id that is free)
Applicable(recs, ch) ==
    /\ (ch.stanza \in {"created", "updated"} /\ ByServerId(recs, "s1") = {} /\ ch.ok)
          => \E r \in DOMAIN recs : ~recs[r].exists
    /\ (ch.stanza \in {"none", "deleted"} \/ ByServerId(recs, "s1") = {} \/ ~ch.ok)
          => (~ch.newer /\ ch.verdict = "local")
    /\ (ch.stanza = "none" \/ (ch.stanza = "deleted" /\ ByServerId(recs, "s1") = {})) => ch.ok

\* applyCreated / applyUpdated / applyDeleted for the entry; an entry whose
\* apply throws is logged and skipped
ApplyChange(recs, ch) ==
    IF ch.stanza = "none" \/ ~ch.ok THEN recs
    ELSE IF ch.stanza = "deleted"
    THEN [r \in DOMAIN recs |-> IF r \in ByServerId(recs, "s1") THEN NoRecord ELSE recs[r]]
    ELSE IF ByServerId(recs, "s1") # {}
    THEN [recs EXCEPT ![Min(ByServerId(recs, "s1"))] =
            UpdateRecord(@, "s1", ch.newer, ch.verdict)]
    ELSE [recs EXCEPT ![Min({r \in DOMAIN recs : ~recs[r].exists})] = ApplyServerData("s1")]

----------------------------------------------------------------------------
(* PullSynchronizer.pull in detail: pull() called on the PullSynchronizer, *)
(* rows that carry server_updated_at and a domain field, and the stored    *)
(* watermark. (Pull below is the same code as sync() sees it, with the     *)
(* timestamps abstracted into the choice `newer`.)                         *)

\* lastSyncAt: null
Null == -1

\* the values of response.timestamp (milliseconds, an integer)
Stamps == {0} \cup Times \cup {10 * t : t \in Times}

\* (a variant that drops the last digit of a number of more than one digit)
RECURSIVE ToStringTruncated(_)
ToStringTruncated(n) == IF n < 10 THEN <<n>> ELSE ToStringTruncated(n \div 10)

\* timestamp.toString() of a non-negative integer: its decimal digits
RECURSIVE ToString(_)
ToString(n) == IF n < 10 THEN <<n>> ELSE ToString(n \div 10) \o <<n % 10>>

\* parseInt(value, 10) of a non-empty string of digits
RECURSIVE ParseInt(_)
ParseInt(value) ==
    IF Len(value) = 1 THEN value[1]
    ELSE 10 * ParseInt(SubSeq(value, 1, Len(value) - 1)) + value[Len(value)]

\* AsyncStorage.getItem resolves to null: nothing is stored under the key
NoWatermark == [present |-> FALSE, text |-> <<>>]

\* getLastSyncTimestamp: value ? parseInt(value, 10) : null, and null when
\* the read throws
GetLastSyncTimestamp(w, ok) ==
    IF ok /\ w.present /\ w.text # <<>> THEN ParseInt(w.text) ELSE Null

\* setLastSyncTimestamp: setItem(key, timestamp.toString()); a write that
\* throws is logged and swallowed
SetLastSyncTimestamp(w, timestamp, ok) ==
    IF ok THEN [present |-> TRUE, text |-> ToString(timestamp)] ELSE w

ServerIds == {"s1"}

\* a record of a created or updated stanza: its id, updated_at (0: the field
\* is missing) and a domain field
ServerRecords == [id : ServerIds, updated_at : 0..(MaxClock + 1), title : {"s"}]

NoChanges == [created |-> <<>>, updated |-> <<>>, deleted |-> <<>>]

\* response.changes for the one synced table
ChangeSets ==
    {c \in [created : SeqsUpTo(ServerRecords, MaxChanges),
            updated : SeqsUpTo(ServerRecords, MaxChanges),
            deleted : SeqsUpTo(ServerIds, MaxChanges)] :
        Len(c.created) + Len(c.updated) + Len(c.deleted) <= MaxChanges}

NoRow ==
    [exists |-> FALSE, serverId |-> "none", serverUpdatedAt |-> 0, syncStatus |-> "none",
     title |-> "none"]

\* what the resolver can return: 'local', 'server', or a merged mapping (whose
\* id and updated_at can be missing: "none", 0)
KeepLocal == [kind |-> "local", id |-> "none", updated_at |-> 0, title |-> "none"]

TakeServer == [kind |-> "server", id |-> "none", updated_at |-> 0, title |-> "none"]

Resolutions ==
    {KeepLocal, TakeServer}
    \cup [kind : {"merged"}, id : ServerIds \cup {"none"}, updated_at : 0..(MaxClock + 1),
          title : {"m"}]

\* what the apply of one stanza entry meets: the lookup or the write that
\* throws, what the resolver returns when asked, and Date.now()
EntryScenarios ==
    [fault : {"none", "query", "write"}, verdict : Resolutions, now : Times]

\* applyServerData: the fields of data other than id, created_at and
\* updated_at, then the sync metadata, taken from data as well
ApplyData(data, now) ==
    [exists |-> TRUE, serverId |-> data.id,
     serverUpdatedAt |-> IF data.updated_at # 0 THEN data.updated_at ELSE now,
     syncStatus |-> "synced", title |-> data.title]

\* hasConflict of updateRecord
HasConflict(local, S) ==
    /\ local.syncStatus = "pending"
    /\ local.serverUpdatedAt # 0
    /\ S.updated_at > local.serverUpdatedAt

\* updateRecord: the row it leaves, verdict being what the resolver returns
\* if it is asked
UpdateRow(local, S, verdict, now) ==
    IF HasConflict(local, S)
    THEN CASE verdict.kind = "local" -> local
           [] verdict.kind = "server" -> ApplyData(S, now)
           [] OTHER -> ApplyData(verdict, now)
    ELSE ApplyData(S, now)

\* the loop of applyCreated and of applyUpdated from position i on: a record
\* found by server_id is updated, otherwise one is created; an entry whose
\* apply throws is logged and skipped. acc: the table, a log of the entries
\* processed (the row matched, whether the resolver was asked and what it
\* returned), the number of entries that did not throw, and whether a create
\* found no local id free
RECURSIVE ApplyRecords(_, _, _, _, _)
ApplyRecords(stanza, recs, scs, i, acc) ==
    IF i > Len(recs) THEN acc
    ELSE LET S == recs[i]
             found == IF scs[i].fault = "query" THEN {} ELSE ByServerId(acc.table, S.id)
             rid == IF found = {} THEN 0 ELSE Min(found)
             local == IF rid = 0 THEN NoRow ELSE acc.table[rid]
             asked == rid # 0 /\ HasConflict(local, S)
             writes == ~(asked /\ scs[i].verdict.kind = "local")
             failed == scs[i].fault = "query" \/ (scs[i].fault = "write" /\ writes)
             free == {r \in DOMAIN acc.table : ~acc.table[r].exists}
             target == IF rid # 0 THEN rid ELSE IF free = {} THEN 0 ELSE Min(free)
             row == IF rid # 0 THEN UpdateRow(local, S, scs[i].verdict, scs[i].now)
                    ELSE ApplyData(S, scs[i].now)
         IN  ApplyRecords(stanza, recs, scs, i + 1,
                 [table |-> IF failed \/ ~writes \/ target = 0 THEN acc.table
                            ELSE [acc.table EXCEPT ![target] = row],
                  log |-> Append(acc.log,
                             [stanza |-> stanza, server |-> S, rid |-> rid, local |-> local,
                              asked |-> asked,
                              verdict |-> IF asked THEN scs[i].verdict ELSE KeepLocal,
                              failed |-> failed]),
                  applied |-> acc.applied + (IF failed THEN 0 ELSE 1),
                  full |-> acc.full \/ (~failed /\ writes /\ target = 0)])

\* applyCreated: returns records.length
ApplyCreated(tb, recs, scs, log) ==
    LET r == ApplyRecords("created", recs, scs, 1,
                          [table |-> tb, log |-> log, applied |-> 0, full |-> FALSE])
    IN  [table |-> r.table, log |-> r.log, count |-> Len(recs), full |-> r.full]

\* applyUpdated: returns updatedCount, the entries that did not throw
ApplyUpdated(tb, recs, scs, log) ==
    LET r == ApplyRecords("updated", recs, scs, 1,
                          [table |-> tb, log |-> log, applied |-> 0, full |-> FALSE])
    IN  [table |-> r.table, log |-> r.log, count |-> r.applied, full |-> r.full]

\* the loop of applyDeleted from position i on: every row with the server id
\* is marked as deleted and counted; a lookup that throws is logged
RECURSIVE ApplyDeleted(_, _, _, _)
ApplyDeleted(ids, scs, i, acc) ==
    IF i > Len(ids) THEN acc
    ELSE LET failed == scs[i].fault # "none"
             found == IF failed THEN {} ELSE ByServerId(acc.table, ids[i])
         IN  ApplyDeleted(ids, scs, i + 1,
                 [table |-> [r \in DOMAIN acc.table |->
                                IF r \in found THEN NoRow ELSE acc.table[r]],
                  log |-> Append(acc.log,
                             [stanza |-> "deleted",
                              server |-> [id |-> ids[i], updated_at |-> 0, title |-> "none"],
                              rid |-> IF found = {} THEN 0 ELSE Min(found),
                              local |-> IF found = {} THEN NoRow ELSE acc.table[Min(found)],
                              asked |-> FALSE, verdict |-> KeepLocal, failed |-> failed]),
                  count |-> acc.count + Cardinality(found)])

\* the write transaction of pull(): created, updated, deleted in that order;
\* pulledCount is the sum of what the three return. scs: one scenario per
\* entry, in the order of processing
ApplyChanges(tb, changes, scs) ==
    LET nc == Len(changes.created)
        nu == Len(changes.updated)
        nd == Len(changes.deleted)
        c == ApplyCreated(tb, changes.created, SubSeq(scs, 1, nc), <<>>)
        u == ApplyUpdated(c.table, changes.updated, SubSeq(scs, nc + 1, nc + nu), c.log)
        d == ApplyDeleted(changes.deleted, SubSeq(scs, nc + nu + 1, nc + nu + nd), 1,
                          [table |-> u.table, log |-> u.log, count |-> 0])
    IN  [table |-> d.table, log |-> d.log, pulledCount |-> c.count + u.count + d.count,
         full |-> c.full \/ u.full]

(* retryWithBackoff (utils/retry.ts) *)

DefaultMaxDelay == 30000

RECURSIVE Pow2(_)
Pow2(n) == IF n = 0 THEN 1 ELSE 2 * Pow2(n - 1)

\* the configurations a caller passes: maxRetries is any integer; maxDelay 0
\* stands for a maxDelay that is 0 or missing
RetryConfigs ==
    [maxRetries : (0 - 1)..MaxTries, baseDelay : {1, 1000, 20000}, maxDelay : {0, 3, 50000}]

\* (a variant without the cap)
CalculateBackoffUncapped(attempt, config) == config.baseDelay * Pow2(attempt)

\* calculateBackoff: min(baseDelay * 2^attempt, maxDelay || 30000)
CalculateBackoff(attempt, config) ==
    LET delay == config.baseDelay * Pow2(attempt)
        maxDelay == IF config.maxDelay # 0 THEN config.maxDelay ELSE DefaultMaxDelay
    IN  IF delay < maxDelay THEN delay ELSE maxDelay

\* no retryWithBackoff call in flight. attempt: the loop variable; calls: the
\* invocations of fn so far; sleeps: the delays slept so far; lastError: the
\* error of the last failed invocation (the k-th invocation fails with error
\* k; 0: undefined); error: what the call rejected with
NoRetry ==
    [pc |-> "idle", config |-> [maxRetries |-> 0, baseDelay |-> 1, maxDelay |-> 0],
     attempt |-> 0, calls |-> 0, sleeps |-> <<>>, lastError |-> 0, error |-> 0]

\* no pull() in flight. last: the response timestamp of the latest pull() that
\* returned; stored: that of the latest one whose watermark write succeeded
NoPull ==
    [pc |-> "idle", read |-> FALSE, lastSyncAt |-> Null, timestamp |-> 0, pulledCount |-> 0,
     log |-> <<>>, last |-> Null, stored |-> Null, outcome |-> "none"]

\* no initialize() call in flight
NoInit == [fetch |-> 0, count |-> 0]

Init ==
    /\ state = InitialState
    /\ held = [l \in Listeners |-> FALSE]
    /\ called = {}
    /\ listeners = <<>>
    /\ net = InitialStatus
    /\ netSubscribed = FALSE
    /\ reconnectListeners = 0
    /\ syncIntervalId = FALSE
    /\ isInitialized = FALSE
    /\ initPc = NoInit
    /\ subscriptions = 0
    /\ timers = 0
    /\ queue = <<>>
    /\ attempts = <<>>
    /\ qop = "idle"
    /\ out = NoOut
    /\ records = [r \in RecordIds |-> NoRecord]
    /\ exec = NoExec
    /\ told = <<>>
    /\ destroyed = FALSE
    /\ table = [r \in RecordIds |-> NoRow]
    /\ watermark = NoWatermark
    /\ pull = NoPull
    /\ retry = NoRetry
    /\ pushBatchSize = PushBatchSize
    /\ feed = NoChanges

----------------------------------------------------------------------------
(* Actions *)

engineVars == <<state, held>>
lifeVars == <<netSubscribed, reconnectListeners, syncIntervalId, isInitialized, initPc,
              subscriptions, timers>>
storeVars == <<records, exec>>
pullVars == <<table, watermark, pull, feed>>
utilVars == <<retry>>
configVars == <<pushBatchSize>>
restVars == <<told, destroyed, pullVars, utilVars, configVars>>

\* a step of code that calls neither sync() nor updateState
Quiet == called' = {} /\ out' = NoOut

\* NetworkDetector.updateStatus for the NetInfoState e: on an observable
\* change the listeners are notified; the reconnect listener, when registered,
\* calls sync() if connected and not syncing
UpdateStatus(e) ==
    LET s == ToStatus(e)
    IN  /\ net' = s
        /\ told' = IF StatusChanged(net, s) /\ reconnectListeners > 0
                   THEN NotifyStatus(s) ELSE <<>>
        /\ IF StatusChanged(net, s) /\ reconnectListeners > 0
              /\ s.isConnected /\ ~state.isSyncing
           THEN SyncCall(s)
           ELSE Quiet /\ UNCHANGED <<engineVars, attempts>>

\* a manual sync()
Sync ==
    /\ SyncCall(net)
    /\ UNCHANGED <<listeners, net, lifeVars, queue, qop, storeVars, restVars>>

\* the setInterval callback of startBackgroundSync
Tick ==
    /\ syncIntervalId
    /\ IF IsOnline(net) /\ ~state.isSyncing
       THEN SyncCall(net)
       ELSE Quiet /\ UNCHANGED <<engineVars, attempts>>
    /\ UNCHANGED <<listeners, net, lifeVars, queue, qop, storeVars, restVars>>

\* a NetInfo event
NetworkEvent ==
    /\ subscriptions > 0
    /\ \E e \in NetInfoStates : UpdateStatus(e)
    /\ UNCHANGED <<listeners, lifeVars, queue, qop, storeVars, destroyed, pullVars,
                   utilVars, configVars>>

\* (a variant that swallows the error of push() and goes on to pull())
PushThrowsContinues(i) ==
    /\ attempts' = [attempts EXCEPT ![i].pc = "pull"]
    /\ Quiet
    /\ UNCHANGED engineVars

\* sync() when push() has thrown: the catch block, pull() is not called
PushThrows(i) == SyncFail(i, ErrDatabase)

\* push() called directly rethrows to its caller
PushRejects(i) ==
    /\ attempts' = Remove(attempts, i)
    /\ Quiet
    /\ UNCHANGED engineVars

\* where a call goes when its push() returns: sync() calls pull(), a direct
\* caller gets the counts
PushEnd(a) == IF a.via = "sync" THEN "pull" ELSE "done"

\* (a variant whose push() reads the queue as a strict FIFO: the rows before
\* the first dead row)
PushFetchHeadOfLine(i) ==
    /\ attempts[i].pc = "fetch"
    /\ \/ IF attempts[i].via = "sync" THEN PushThrows(i) ELSE PushRejects(i)
       \/ LET dead == {j \in 1..Len(queue) : queue[j].retryCount >= MaxRetries}
              n == IF dead = {} THEN Len(queue) ELSE Min(dead) - 1
              items == [j \in 1..n |-> ModelToQueueItem(queue[j])]
          IN  /\ attempts' = [attempts EXCEPT
                                ![i].items = items,
                                ![i].pc = IF items = <<>> THEN PushEnd(attempts[i])
                                          ELSE "batch"]
              /\ Quiet
              /\ UNCHANGED engineVars
    /\ UNCHANGED <<listeners, net, lifeVars, queue, qop, storeVars, restVars>>

\* push() of attempt i: getPendingItems has answered, or has thrown
PushFetch(i) ==
    /\ attempts[i].pc = "fetch"
    /\ \/ IF attempts[i].via = "sync" THEN PushThrows(i) ELSE PushRejects(i)
       \/ LET items == GetPendingItems(queue, MaxRetries)
          IN  /\ attempts' = [attempts EXCEPT
                                ![i].items = items,
                                ![i].pc = IF items = <<>> THEN PushEnd(attempts[i])
                                          ELSE "batch"]
              /\ Quiet
              /\ UNCHANGED engineVars
    /\ UNCHANGED <<listeners, net, lifeVars, queue, qop, storeVars, restVars>>

\* the for loop of push(): after the batch at idx, the next batch or the end
AfterBatch(a) ==
    IF a.idx + a.batchSize > Len(a.items)
    THEN [a EXCEPT !.pc = PushEnd(a), !.items = <<>>, !.idx = 1, !.calls = 0]
    ELSE [a EXCEPT !.idx = a.idx + a.batchSize,
                   !.calls = IF @ < MaxCalls THEN @ + 1 ELSE @]

\* 'pushedCount += result.pushedCount; failedCount += result.failedCount' of
\* push(), r being what pushBatch did to queue q and what it returned; and
\* the rows of the batch that it deleted and that it bumped
AddCounts(a, q, batch, r) ==
    LET rc(qq, id) == qq[CHOOSE j \in 1..Len(qq) : qq[j].id = id].retryCount
        gone == {k \in 1..Len(batch) : Has(q, batch[k].id) /\ ~Has(r.queue, batch[k].id)}
        up == {k \in 1..Len(batch) :
                  /\ Has(q, batch[k].id) /\ Has(r.queue, batch[k].id)
                  /\ rc(r.queue, batch[k].id) > rc(q, batch[k].id)}
    IN  [a EXCEPT !.pushedCount = @ + r.pushed, !.failedCount = @ + r.failed,
                  !.removed = @ + Cardinality(gone), !.bumped = @ + Cardinality(up)]

\* push() of attempt i: apiClient.push has answered for the batch at idx
PushStep(i) ==
    /\ attempts[i].pc = "batch"
    /\ attempts[i].batchSize < 0 => attempts[i].calls < MaxCalls
    /\ LET batch == Slice(attempts[i].items, attempts[i].idx, attempts[i].batchSize)
       IN  \E r \in {PushBatch(queue, records, batch, sc) : sc \in Scenarios(queue, batch)} :
             /\ queue' = r.queue
             /\ records' = r.records
             /\ attempts' = [attempts EXCEPT
                               ![i] = AfterBatch(AddCounts(@, queue, batch, r))]
    /\ Quiet
    /\ UNCHANGED <<engineVars, listeners, net, lifeVars, qop, exec, restVars>>

\* what a pushBatch call meets when the server acknowledges every item of the
\* batch (success = true, one result without error per item) and the queue
\* writes of the result loop go through; the write-backs can still fail
Acknowledgements(q, batch) ==
    {sc \in Scenarios(q, batch) :
        /\ sc.kind = "success" /\ Len(sc.results) = Len(batch)
        /\ \A k \in 1..Len(batch) : sc.results[k] # "err"
        /\ sc.loopFail = 0}

\* push() of attempt i: apiClient.push has acknowledged the batch at idx
PushStepAcknowledged(i) ==
    /\ attempts[i].pc = "batch"
    /\ attempts[i].batchSize < 0 => attempts[i].calls < MaxCalls
    /\ LET batch == Slice(attempts[i].items, attempts[i].idx, attempts[i].batchSize)
       IN  \E r \in {PushBatch(queue, records, batch, sc) :
                        sc \in Acknowledgements(queue, batch)} :
             /\ queue' = r.queue
             /\ records' = r.records
             /\ attempts' = [attempts EXCEPT
                               ![i] = AfterBatch(AddCounts(@, queue, batch, r))]
    /\ Quiet
    /\ UNCHANGED <<engineVars, listeners, net, lifeVars, qop, exec, restVars>>

\* push() of attempt i: getPendingItems has answered
PushReads(i) == PushFetch(i) /\ Len(attempts') = Len(attempts)

\* a push() called directly, by a caller that awaits it before it calls again
PushCall ==
    /\ attempts = <<>>
    /\ attempts' = Append(attempts, NewPush)
    /\ Quiet
    /\ UNCHANGED <<engineVars, listeners, net, lifeVars, queue, qop, storeVars, restVars>>

\* the batch sizes the constructor of PushSynchronizer is given: it takes any
\* number
BatchSizes == (0 - 1)..(MaxQueue + 2)

\* push() called on a PushSynchronizer that was constructed with batch size b
PushCallSized ==
    /\ attempts = <<>>
    /\ \E b \in BatchSizes : attempts' = Append(attempts, [NewPush EXCEPT !.batchSize = b])
    /\ Quiet
    /\ UNCHANGED <<engineVars, listeners, net, lifeVars, queue, qop, storeVars, restVars>>

PushReturn(i) ==
    /\ attempts[i].pc = "done"
    /\ attempts' = Remove(attempts, i)
    /\ Quiet
    /\ UNCHANGED <<engineVars, listeners, net, lifeVars, queue, qop, storeVars, restVars>>

\* pull() of attempt i has returned, having applied the response, or has
\* thrown (the transport, or the write transaction as a whole)
Pull(i) ==
    /\ attempts[i].pc = "pull"
    /\ \/ SyncFail(i, ErrPull) /\ UNCHANGED records
       \/ /\ attempts' = [attempts EXCEPT ![i].pc = "count"]
          /\ records' \in {ApplyChange(records, ch) :
                              ch \in {c \in PullChanges : Applicable(records, c)}}
          /\ Quiet
          /\ UNCHANGED engineVars
    /\ UNCHANGED <<listeners, net, lifeVars, queue, qop, exec, restVars>>

\* the rest of sync(): updatePendingCount, updateState(idle), return
SyncFinish(i) ==
    /\ attempts[i].pc = "count"
    /\ \E dbOk \in BOOLEAN, t \in Times :
         UpdateStateIn(SetPendingCount(state, GetPendingCount(queue, dbOk)), IdleUpdate(t))
    /\ attempts' = Remove(attempts, i)
    /\ out' = [Result(TRUE, NoError, FALSE, TRUE) EXCEPT
                  !.pushedCount = attempts[i].pushedCount,
                  !.failedCount = attempts[i].failedCount]
    /\ UNCHANGED <<listeners, net, lifeVars, queue, qop, storeVars, restVars>>

\* ids no row and no push in flight refers to
FreshIds ==
    {id \in ItemIds : ~Has(queue, id)
                      /\ \A i \in 1..Len(attempts) :
                            \A k \in 1..Len(attempts[i].items) : attempts[i].items[k].id # id}

\* the rows an execute() in flight is still to append
Reserved == IF exec.pc = "enqueue" THEN 1 ELSE 0

\* queueOperation(): the write of addToQueue has committed (a call whose write
\* throws changes nothing and rethrows)
QueueOpWrite ==
    /\ qop = "idle"
    /\ Len(queue) + Reserved < MaxQueue /\ Cardinality(FreshIds) > Reserved
    /\ \E r \in RecordIds : queue' = AddToQueue(queue, Min(FreshIds), r)
    /\ qop' = "count"
    /\ Quiet
    /\ UNCHANGED <<engineVars, listeners, net, lifeVars, attempts, storeVars, restVars>>

\* addToQueue called on the SyncQueueManager directly: its write has committed
AddToQueueCall ==
    /\ Len(queue) + Reserved < MaxQueue /\ Cardinality(FreshIds) > Reserved
    /\ \E r \in RecordIds : queue' = AddToQueue(queue, Min(FreshIds), r)
    /\ Quiet
    /\ UNCHANGED <<engineVars, listeners, net, lifeVars, attempts, qop, storeVars, restVars>>

\* queueOperation(): its updatePendingCount
QueueOpCount ==
    /\ qop = "count"
    /\ \E dbOk \in BOOLEAN : UpdatePendingCount(GetPendingCount(queue, dbOk))
    /\ qop' = "idle"
    /\ out' = NoOut
    /\ UNCHANGED <<listeners, net, lifeVars, queue, attempts, storeVars, restVars>>

\* useOptimisticUpdate execute(): database.write(fn) has committed (a write
\* that throws changes nothing and execute rejects). fn creates or updates
\* record r, or removes it
ExecuteWrite(r, op) ==
    /\ exec.pc = "idle"
    /\ Len(queue) < MaxQueue /\ FreshIds # {}
    /\ records' = [records EXCEPT ![r] =
                     IF op = "DELETE" THEN NoRecord
                     ELSE [exists |-> TRUE, serverId |-> @.serverId, syncStatus |-> "pending"]]
    /\ exec' = [pc |-> "enqueue", rec |-> r]
    /\ Quiet
    /\ UNCHANGED <<engineVars, listeners, net, lifeVars, queue, attempts, qop, restVars>>

\* execute(): addToQueue of its queueOperation() has committed, or has thrown
\* (queueOperation rethrows, and so does execute)
ExecuteEnqueue ==
    /\ exec.pc = "enqueue"
    /\ \/ /\ queue' = AddToQueue(queue, Min(FreshIds), exec.rec)
          /\ exec' = [exec EXCEPT !.pc = "count"]
       \/ /\ exec' = NoExec
          /\ UNCHANGED queue
    /\ Quiet
    /\ UNCHANGED <<engineVars, listeners, net, lifeVars, attempts, qop, records, restVars>>

\* execute(): the updatePendingCount of its queueOperation()
ExecuteCount ==
    /\ exec.pc = "count"
    /\ \E dbOk \in BOOLEAN : UpdatePendingCount(GetPendingCount(queue, dbOk))
    /\ exec' = [exec EXCEPT !.pc = "sync"]
    /\ out' = NoOut
    /\ UNCHANGED <<listeners, net, lifeVars, queue, attempts, qop, records, restVars>>

\* execute(): syncEngine.sync() is called and not awaited; execute returns
ExecuteSync ==
    /\ exec.pc = "sync"
    /\ SyncCall(net)
    /\ exec' = NoExec
    /\ UNCHANGED <<listeners, net, lifeVars, queue, qop, records, restVars>>

\* clearFailedItems(maxRetries), its read and its write taken as one step
ClearFailedItems ==
    /\ GetFailedItems(queue, MaxRetries) # <<>>
    /\ queue' = SelectSeq(queue, LAMBDA row : row.retryCount < MaxRetries)
    /\ Quiet
    /\ UNCHANGED <<engineVars, listeners, net, lifeVars, attempts, qop, storeVars, restVars>>

\* clearAllItems(), its read and its write taken as one step
ClearAllItems ==
    /\ queue # <<>>
    /\ queue' = <<>>
    /\ Quiet
    /\ UNCHANGED <<engineVars, listeners, net, lifeVars, attempts, qop, storeVars, restVars>>

\* addListener: Set.add
AddListener(l) ==
    /\ l \notin Range(listeners)
    /\ listeners' = Append(listeners, l)
    /\ Quiet
    /\ UNCHANGED <<engineVars, net, lifeVars, queue, attempts, qop, storeVars, restVars>>

\* removeListener: Set.delete
RemoveListener(l) ==
    /\ l \in Range(listeners)
    /\ listeners' = SelectSeq(listeners, LAMBDA x : x # l)
    /\ Quiet
    /\ UNCHANGED <<engineVars, net, lifeVars, queue, attempts, qop, storeVars, restVars>>

\* initialize() called while no other call of it is in flight: past the
\* isInitialized guard, waiting for NetInfo.fetch
InitCall ==
    /\ ~isInitialized /\ initPc = NoInit
    /\ initPc' = [initPc EXCEPT !.fetch = 1]
    /\ destroyed' = FALSE
    /\ Quiet
    /\ UNCHANGED <<engineVars, listeners, net, netSubscribed, reconnectListeners,
                   syncIntervalId, isInitialized, subscriptions, timers, queue, attempts,
                   qop, storeVars, told, pullVars,
                   utilVars, configVars>>

\* initialize() called while another call of it is in flight: isInitialized
\* is set at the end of a call only, so this one passes the guard too
InitCallOverlapping ==
    /\ ~isInitialized /\ initPc # NoInit
    /\ initPc.fetch + initPc.count < MaxInits
    /\ initPc' = [initPc EXCEPT !.fetch = @ + 1]
    /\ destroyed' = FALSE
    /\ Quiet
    /\ UNCHANGED <<engineVars, listeners, net, netSubscribed, reconnectListeners,
                   syncIntervalId, isInitialized, subscriptions, timers, queue, attempts,
                   qop, storeVars, told, pullVars,
                   utilVars, configVars>>

\* initialize(): NetInfo.fetch has answered (updateStatus, subscribe, add the
\* reconnect listener), or has thrown
InitFetch ==
    /\ initPc.fetch > 0
    /\ \/ /\ \E e \in NetInfoStates : UpdateStatus(e)
          /\ netSubscribed' = TRUE
          /\ subscriptions' = subscriptions + 1
          /\ reconnectListeners' = reconnectListeners + (IF SyncOnReconnect THEN 1 ELSE 0)
          /\ initPc' = [initPc EXCEPT !.fetch = @ - 1, !.count = @ + 1]
       \/ /\ initPc' = [initPc EXCEPT !.fetch = @ - 1]
          /\ Quiet
          /\ UNCHANGED <<engineVars, net, netSubscribed, subscriptions, reconnectListeners,
                         attempts, told>>
    /\ UNCHANGED <<listeners, syncIntervalId, isInitialized, timers, queue, qop, storeVars,
                   destroyed, pullVars,
                   utilVars, configVars>>

\* initialize(): its updatePendingCount, startBackgroundSync (which returns
\* early when a timer is set), isInitialized = true
InitCount ==
    /\ initPc.count > 0
    /\ \E dbOk \in BOOLEAN : UpdatePendingCount(GetPendingCount(queue, dbOk))
    /\ syncIntervalId' = (syncIntervalId \/ EnableBackgroundSync)
    /\ timers' = timers + (IF EnableBackgroundSync /\ ~syncIntervalId THEN 1 ELSE 0)
    /\ isInitialized' = TRUE
    /\ initPc' = [initPc EXCEPT !.count = @ - 1]
    /\ out' = NoOut
    /\ UNCHANGED <<listeners, net, netSubscribed, subscriptions, reconnectListeners, queue,
                   attempts, qop, storeVars, restVars>>

\* destroy(): stopBackgroundSync (clears the timer syncIntervalId holds),
\* networkDetector.destroy() (calls the unsubscribe function it holds,
\* listeners.clear()), listeners.clear(), isInitialized = false. It is
\* synchronous; an initialize() or a sync() in flight goes on afterwards
Destroy ==
    /\ syncIntervalId' = FALSE
    /\ timers' = timers - (IF syncIntervalId THEN 1 ELSE 0)
    /\ netSubscribed' = FALSE
    /\ subscriptions' = subscriptions - (IF netSubscribed THEN 1 ELSE 0)
    /\ reconnectListeners' = 0
    /\ listeners' = <<>>
    /\ isInitialized' = FALSE
    /\ destroyed' = TRUE
    /\ Quiet
    /\ UNCHANGED <<engineVars, net, initPc, queue, attempts, qop, storeVars, told, pullVars,
                   utilVars, configVars>>

\* what a direct pull() and the application's own writes leave alone
hostExceptRetry ==
    <<engineVars, listeners, net, lifeVars, queue, attempts, qop, storeVars, told, destroyed,
      configVars>>

hostVars ==
    <<engineVars, listeners, net, lifeVars, queue, attempts, qop, storeVars, told, destroyed,
      utilVars, configVars>>

\* a pull() called on the PullSynchronizer directly, by a caller that awaits
\* it before it calls again
PullCall ==
    /\ pull.pc = "idle"
    /\ pull' = [pull EXCEPT !.pc = "read", !.outcome = "none"]
    /\ Quiet
    /\ UNCHANGED <<hostVars, table, watermark, feed>>

\* pull(): getLastSyncTimestamp has returned (null when the read threw), the
\* request is sent with lastSyncAt
PullRead ==
    /\ pull.pc = "read"
    /\ \E ok \in BOOLEAN :
         pull' = [pull EXCEPT !.pc = "fetch", !.read = ok,
                              !.lastSyncAt = GetLastSyncTimestamp(watermark, ok)]
    /\ Quiet
    /\ UNCHANGED <<hostVars, table, watermark, feed>>

\* pull(): apiClient.pull has answered and the write transaction has applied
\* the changes; or one of the two has thrown, and pull() rethrows
PullApply ==
    /\ pull.pc = "fetch"
    /\ \/ /\ pull' = [NoPull EXCEPT !.last = pull.last, !.stored = pull.stored,
                                      !.outcome = "thrown"]
          /\ UNCHANGED table
       \/ \E timestamp \in Stamps,
             scs \in [1..(Len(feed.created) + Len(feed.updated) + Len(feed.deleted))
                        -> EntryScenarios] :
            LET r == ApplyChanges(table, feed, scs)
            IN  /\ ~r.full
                /\ table' = r.table
                /\ pull' = [pull EXCEPT !.pc = "store", !.timestamp = timestamp,
                                        !.pulledCount = r.pulledCount, !.log = r.log]
    /\ Quiet
    /\ UNCHANGED <<hostVars, watermark, feed>>

\* pull(): setLastSyncTimestamp has returned, pull() returns pulledCount
PullStore ==
    /\ pull.pc = "store"
    /\ \E ok \in BOOLEAN :
         /\ watermark' = SetLastSyncTimestamp(watermark, pull.timestamp, ok)
         /\ pull' = [NoPull EXCEPT !.last = pull.timestamp,
                                   !.stored = IF ok THEN pull.timestamp ELSE pull.stored,
                                   !.outcome = "returned"]
    /\ Quiet
    /\ UNCHANGED <<hostVars, table, feed>>

\* sync() of attempt i calls pull()
SyncPullCall(i) ==
    /\ attempts[i].pc = "pull" /\ pull.pc = "idle"
    /\ attempts' = [attempts EXCEPT ![i].pc = "pulling"]
    /\ pull' = [pull EXCEPT !.pc = "read", !.outcome = "none"]
    /\ Quiet
    /\ UNCHANGED <<engineVars, listeners, net, lifeVars, queue, qop, storeVars, told,
                   destroyed, table, watermark, feed,
                   utilVars, configVars>>

\* sync() of attempt i: its pull() has returned, updatePendingCount is next
SyncPullReturn(i) ==
    /\ attempts[i].pc = "pulling" /\ pull.pc = "idle" /\ pull.outcome = "returned"
    /\ attempts' = [attempts EXCEPT ![i].pc = "count"]
    /\ pull' = [pull EXCEPT !.outcome = "none"]
    /\ Quiet
    /\ UNCHANGED <<engineVars, listeners, net, lifeVars, queue, qop, storeVars, told,
                   destroyed, table, watermark, feed,
                   utilVars, configVars>>

\* (a variant that swallows the error of pull() and goes on)
SyncPullThrowsContinues(i) ==
    /\ attempts[i].pc = "pulling" /\ pull.pc = "idle" /\ pull.outcome = "thrown"
    /\ attempts' = [attempts EXCEPT ![i].pc = "count"]
    /\ pull' = [pull EXCEPT !.outcome = "none"]
    /\ Quiet
    /\ UNCHANGED <<engineVars, listeners, net, lifeVars, queue, qop, storeVars, told,
                   destroyed, table, watermark, feed,
                   utilVars, configVars>>

\* sync() of attempt i: its pull() has thrown, the catch block of sync()
SyncPullThrows(i) ==
    /\ attempts[i].pc = "pulling" /\ pull.pc = "idle" /\ pull.outcome = "thrown"
    /\ SyncFail(i, ErrPull)
    /\ pull' = [pull EXCEPT !.outcome = "none"]
    /\ UNCHANGED <<listeners, net, lifeVars, queue, qop, storeVars, told,
                   destroyed, table, watermark, feed,
                   utilVars, configVars>>

\* the loop test of retryWithBackoff: fn is invoked when attempt <
\* maxRetries, else 'throw lastError'
RetryLoop(r) ==
    IF r.attempt < r.config.maxRetries
    THEN [r EXCEPT !.pc = "fn", !.calls = @ + 1]
    ELSE [r EXCEPT !.pc = "rejected", !.error = r.lastError]

\* retryWithBackoff(fn, config) is called
RetryCall ==
    /\ retry.pc = "idle"
    /\ \E config \in RetryConfigs : retry' = RetryLoop([NoRetry EXCEPT !.config = config])
    /\ Quiet
    /\ UNCHANGED <<hostExceptRetry, pullVars>>

\* fn has settled: its result is returned, or it has failed and the call
\* sleeps, or gives up after the last attempt
RetryFn ==
    /\ retry.pc = "fn"
    /\ \/ retry' = [retry EXCEPT !.pc = "returned"]
       \/ LET failed == [retry EXCEPT !.lastError = retry.calls]
          IN  retry' = IF retry.attempt = retry.config.maxRetries - 1
                       THEN [failed EXCEPT !.pc = "rejected", !.error = failed.lastError]
                       ELSE [failed EXCEPT !.pc = "sleep",
                                           !.sleeps = Append(@, CalculateBackoff(retry.attempt,
                                                                                  retry.config))]
    /\ Quiet
    /\ UNCHANGED <<hostExceptRetry, pullVars>>

\* the sleep is over: attempt++ and the loop test
RetrySleep ==
    /\ retry.pc = "sleep"
    /\ retry' = RetryLoop([retry EXCEPT !.attempt = @ + 1])
    /\ Quiet
    /\ UNCHANGED <<hostExceptRetry, pullVars>>

\* the caller has the result or the rejection
RetrySettled ==
    /\ retry.pc \in {"returned", "rejected"}
    /\ retry' = NoRetry
    /\ Quiet
    /\ UNCHANGED <<hostExceptRetry, pullVars>>

\* the application edits a row of the synced table: a domain field changes
\* and the row is pending
EditRow(r) ==
    /\ table[r].exists
    /\ table' = [table EXCEPT ![r].title = "l", ![r].syncStatus = "pending"]
    /\ Quiet
    /\ UNCHANGED <<hostVars, watermark, pull, feed>>

Next ==
    \/ RetryCall
    \/ RetryFn
    \/ RetrySleep
    \/ RetrySettled
    \/ InitCallOverlapping
    \/ PushCallSized
    \/ \E i \in 1..Len(attempts) : SyncPullCall(i)
    \/ \E i \in 1..Len(attempts) : SyncPullReturn(i)
    \/ \E i \in 1..Len(attempts) : SyncPullThrows(i)
    \/ Sync
    \/ Tick
    \/ NetworkEvent
    \/ \E i \in 1..Len(attempts) : PushFetch(i)
    \/ \E i \in 1..Len(attempts) : PushStep(i)
    \/ \E i \in 1..Len(attempts) : Pull(i)
    \/ \E i \in 1..Len(attempts) : SyncFinish(i)
    \/ QueueOpWrite
    \/ QueueOpCount
    \/ \E l \in Listeners : AddListener(l)
    \/ \E l \in Listeners : RemoveListener(l)
    \/ InitCall
    \/ InitFetch
    \/ InitCount
    \/ Destroy
    \/ \E r \in RecordIds, op \in {"CREATE", "UPDATE", "DELETE"} : ExecuteWrite(r, op)
    \/ ExecuteEnqueue
    \/ ExecuteCount
    \/ ExecuteSync
    \/ ClearFailedItems
    \/ ClearAllItems
    \/ PullCall
    \/ PullRead
    \/ PullApply
    \/ PullStore
    \/ \E r \in RecordIds : EditRow(r)

Spec == Init /\ [][Next]_vars

\* The orchestrator alone, with no listener subscribed: the local store holds
\* no pending change, so every push() finds nothing to send (or fails to read
\* the queue).
NextEngine ==
    \/ Sync
    \/ Tick
    \/ NetworkEvent
    \/ \E i \in 1..Len(attempts) : PushFetch(i)
    \/ \E i \in 1..Len(attempts) : Pull(i)
    \/ \E i \in 1..Len(attempts) : SyncFinish(i)
    \/ InitCall
    \/ InitFetch
    \/ InitCount

SpecEngine == Init /\ [][NextEngine]_vars

\* The state after initialize() has completed with the device online
InitOnline ==
    /\ state = InitialState
    /\ held = [l \in Listeners |-> FALSE]
    /\ called = {}
    /\ listeners = <<>>
    /\ net = OnlineStatus
    /\ netSubscribed = TRUE
    /\ reconnectListeners = (IF SyncOnReconnect THEN 1 ELSE 0)
    /\ syncIntervalId = EnableBackgroundSync
    /\ isInitialized = TRUE
    /\ initPc = NoInit
    /\ subscriptions = 1
    /\ timers = (IF EnableBackgroundSync THEN 1 ELSE 0)
    /\ queue = <<>>
    /\ attempts = <<>>
    /\ qop = "idle"
    /\ out = NoOut
    /\ records = [r \in RecordIds |-> NoRecord]
    /\ exec = NoExec
    /\ told = <<>>
    /\ destroyed = FALSE
    /\ table = [r \in RecordIds |-> NoRow]
    /\ watermark = NoWatermark
    /\ pull = NoPull
    /\ retry = NoRetry
    /\ pushBatchSize = PushBatchSize
    /\ feed = NoChanges

\* Manual sync() calls and queueOperation() calls on an initialized engine that
\* stays online and has no listener
NextPush ==
    \/ Sync
    \/ \E i \in 1..Len(attempts) : PushFetch(i)
    \/ \E i \in 1..Len(attempts) : PushStep(i)
    \/ \E i \in 1..Len(attempts) : Pull(i)
    \/ \E i \in 1..Len(attempts) : SyncFinish(i)
    \/ QueueOpWrite
    \/ QueueOpCount

SpecPush == InitOnline /\ [][NextPush]_vars

\* Observers: listeners subscribe and unsubscribe while manual sync() calls
\* run on an initialized engine that stays online and has an empty queue
NextListeners ==
    \/ Sync
    \/ \E i \in 1..Len(attempts) : PushFetch(i)
    \/ \E i \in 1..Len(attempts) : Pull(i)
    \/ \E i \in 1..Len(attempts) : SyncFinish(i)
    \/ \E l \in Listeners : AddListener(l)
    \/ \E l \in Listeners : RemoveListener(l)

SpecListeners == InitOnline /\ [][NextListeners]_vars

\* Observers of an engine at work: listeners subscribe and unsubscribe while
\* the ticker starts syncs and the application queues operations
NextObservers ==
    \/ Tick
    \/ \E i \in 1..Len(attempts) : PushFetch(i)
    \/ \E i \in 1..Len(attempts) : PushStep(i)
    \/ \E i \in 1..Len(attempts) : Pull(i)
    \/ \E i \in 1..Len(attempts) : SyncFinish(i)
    \/ QueueOpWrite
    \/ QueueOpCount
    \/ \E l \in Listeners : AddListener(l)
    \/ \E l \in Listeners : RemoveListener(l)

SpecObservers == InitOnline /\ [][NextObservers]_vars

\* Background sync: the ticker calls sync() on an initialized engine that stays
\* online, the application queues operations
NextTicker ==
    \/ Tick
    \/ \E i \in 1..Len(attempts) : PushFetch(i)
    \/ \E i \in 1..Len(attempts) : PushStep(i)
    \/ \E i \in 1..Len(attempts) : Pull(i)
    \/ \E i \in 1..Len(attempts) : SyncFinish(i)
    \/ QueueOpWrite
    \/ QueueOpCount

SpecTicker == InitOnline /\ [][NextTicker]_vars

\* The local store under an initialized engine that stays online and has no
\* listener: optimistic updates, queueOperation() calls, purges of the queue
\* and sync() calls
NextStore ==
    \/ Sync
    \/ \E i \in 1..Len(attempts) : PushFetch(i)
    \/ \E i \in 1..Len(attempts) : PushStep(i)
    \/ \E i \in 1..Len(attempts) : Pull(i)
    \/ \E i \in 1..Len(attempts) : SyncFinish(i)
    \/ QueueOpWrite
    \/ QueueOpCount
    \/ \E r \in RecordIds, op \in {"CREATE", "UPDATE", "DELETE"} : ExecuteWrite(r, op)
    \/ ExecuteEnqueue
    \/ ExecuteCount
    \/ ExecuteSync
    \/ ClearFailedItems
    \/ ClearAllItems

SpecStore == InitOnline /\ [][NextStore]_vars

\* An initialized engine, and the records the application has written (none
\* of them sent to the server yet)
InitPipe ==
    /\ state = InitialState
    /\ held = [l \in Listeners |-> FALSE]
    /\ called = {}
    /\ listeners = <<>>
    /\ net = OnlineStatus
    /\ netSubscribed = TRUE
    /\ reconnectListeners = (IF SyncOnReconnect THEN 1 ELSE 0)
    /\ syncIntervalId = EnableBackgroundSync
    /\ isInitialized = TRUE
    /\ initPc = NoInit
    /\ subscriptions = 1
    /\ timers = (IF EnableBackgroundSync THEN 1 ELSE 0)
    /\ queue = <<>>
    /\ attempts = <<>>
    /\ qop = "idle"
    /\ out = NoOut
    /\ records \in [RecordIds -> {NoRecord, [exists |-> TRUE, serverId |-> "none",
                                              syncStatus |-> "pending"]}]
    /\ exec = NoExec
    /\ told = <<>>
    /\ destroyed = FALSE
    /\ table = [r \in RecordIds |-> NoRow]
    /\ watermark = NoWatermark
    /\ pull = NoPull
    /\ retry = NoRetry
    /\ pushBatchSize = PushBatchSize
    /\ feed = NoChanges

\* The push pipeline alone: push() and the SyncQueueManager called directly,
\* one push() at a time, rows added and purged while it runs
NextPipe ==
    \/ PushCall
    \/ \E i \in 1..Len(attempts) : PushFetch(i)
    \/ \E i \in 1..Len(attempts) : PushStep(i)
    \/ \E i \in 1..Len(attempts) : PushReturn(i)
    \/ AddToQueueCall
    \/ ClearFailedItems
    \/ ClearAllItems

SpecPipe == InitPipe /\ [][NextPipe]_vars

\* The watermark: pull() calls one after the other against a server that has
\* no change to report
NextPull ==
    \/ PullCall
    \/ PullRead
    \/ PullApply
    \/ PullStore

SpecPull == Init /\ [][NextPull]_vars

\* a row the application has written and not yet pushed, or one that was
\* synced before (server_updated_at is set) and may have been edited since
InitRows ==
    {NoRow,
     [exists |-> TRUE, serverId |-> "none", serverUpdatedAt |-> 0, syncStatus |-> "pending",
      title |-> "l"]}
    \cup [exists : {TRUE}, serverId : ServerIds, serverUpdatedAt : Times,
          syncStatus : {"pending", "synced"}, title : {"l"}]

\* An initialized engine, a local table in any of these states and a server
\* with any change set to report
InitApply ==
    /\ state = InitialState
    /\ held = [l \in Listeners |-> FALSE]
    /\ called = {}
    /\ listeners = <<>>
    /\ net = OnlineStatus
    /\ netSubscribed = TRUE
    /\ reconnectListeners = (IF SyncOnReconnect THEN 1 ELSE 0)
    /\ syncIntervalId = EnableBackgroundSync
    /\ isInitialized = TRUE
    /\ initPc = NoInit
    /\ subscriptions = 1
    /\ timers = (IF EnableBackgroundSync THEN 1 ELSE 0)
    /\ queue = <<>>
    /\ attempts = <<>>
    /\ qop = "idle"
    /\ out = NoOut
    /\ records = [r \in RecordIds |-> NoRecord]
    /\ exec = NoExec
    /\ told = <<>>
    /\ destroyed = FALSE
    /\ table \in [RecordIds -> InitRows]
    /\ watermark = NoWatermark
    /\ pull = NoPull
    /\ retry = NoRetry
    /\ pushBatchSize = PushBatchSize
    /\ feed \in ChangeSets

\* Applying changes: pull() calls one after the other against a server whose
\* change set stays the same, while the application edits rows
NextApply ==
    \/ PullCall
    \/ PullRead
    \/ PullApply
    \/ PullStore
    \/ \E r \in RecordIds : EditRow(r)

SpecApply == InitApply /\ [][NextApply]_vars

\* The lifecycle: initialize() and destroy() in any order, the ticker and the
\* network events they enable, and the syncs those start (no manual sync())
NextLife ==
    \/ InitCall
    \/ InitFetch
    \/ InitCount
    \/ Destroy
    \/ Tick
    \/ NetworkEvent
    \/ \E i \in 1..Len(attempts) : PushFetch(i)
    \/ \E i \in 1..Len(attempts) : Pull(i)
    \/ \E i \in 1..Len(attempts) : SyncFinish(i)

SpecLife == Init /\ [][NextLife]_vars

\* initialize() called any number of times, by callers that await it and by
\* callers that do not, and the triggers it enables (no destroy())
NextInit ==
    \/ InitCall
    \/ InitCallOverlapping
    \/ InitFetch
    \/ InitCount
    \/ Tick
    \/ NetworkEvent
    \/ \E i \in 1..Len(attempts) : PushFetch(i)
    \/ \E i \in 1..Len(attempts) : Pull(i)
    \/ \E i \in 1..Len(attempts) : SyncFinish(i)

SpecInit == Init /\ [][NextInit]_vars

\* An initialized engine, online, with an empty local table and a server with
\* at most one change to report
InitServed ==
    /\ state = InitialState
    /\ held = [l \in Listeners |-> FALSE]
    /\ called = {}
    /\ listeners = <<>>
    /\ net = OnlineStatus
    /\ netSubscribed = TRUE
    /\ reconnectListeners = (IF SyncOnReconnect THEN 1 ELSE 0)
    /\ syncIntervalId = EnableBackgroundSync
    /\ isInitialized = TRUE
    /\ initPc = NoInit
    /\ subscriptions = 1
    /\ timers = (IF EnableBackgroundSync THEN 1 ELSE 0)
    /\ queue = <<>>
    /\ attempts = <<>>
    /\ qop = "idle"
    /\ out = NoOut
    /\ records = [r \in RecordIds |-> NoRecord]
    /\ exec = NoExec
    /\ told = <<>>
    /\ destroyed = FALSE
    /\ table = [r \in RecordIds |-> NoRow]
    /\ watermark = NoWatermark
    /\ pull = NoPull
    /\ retry = NoRetry
    /\ pushBatchSize = PushBatchSize
    /\ feed \in {c \in ChangeSets : Len(c.created) + Len(c.updated) + Len(c.deleted) <= 1}

\* The pull() of a sync attempt, step by step: the ticker calls sync() on an
\* engine with an empty queue, sync() calls pull() and goes on when it returns
\* or throws
NextSyncPull ==
    \/ Tick
    \/ \E i \in 1..Len(attempts) : PushFetch(i)
    \/ \E i \in 1..Len(attempts) : SyncPullCall(i)
    \/ PullRead
    \/ PullApply
    \/ PullStore
    \/ \E i \in 1..Len(attempts) : SyncPullReturn(i)
    \/ \E i \in 1..Len(attempts) : SyncPullThrows(i)
    \/ \E i \in 1..Len(attempts) : SyncFinish(i)

SpecSyncPull == InitServed /\ [][NextSyncPull]_vars

\* the rows a queue can hold: retry_count and error_message as the bumps of
\* earlier pushes left them
QueueRows ==
    {row \in [id : ItemIds, retryCount : 0..MaxRetries,
              errorMessage : {NoError, ErrItem}, recordId : RecordIds] :
        (row.retryCount = 0) <=> (row.errorMessage = NoError)}

\* An initialized engine, online, whose queue holds rows of earlier pushes,
\* dead ones among them (ids in the order of creation), for records the
\* application has written
InitDead ==
    /\ queue \in {q \in SeqsUpTo(QueueRows, MaxQueue + 1) : \A j \in 1..Len(q) : q[j].id = j}
    /\ state = SetPendingCount(InitialState, GetPendingCount(queue, TRUE))
    /\ held = [l \in Listeners |-> FALSE]
    /\ called = {}
    /\ listeners = <<>>
    /\ net = OnlineStatus
    /\ netSubscribed = TRUE
    /\ reconnectListeners = (IF SyncOnReconnect THEN 1 ELSE 0)
    /\ syncIntervalId = EnableBackgroundSync
    /\ isInitialized = TRUE
    /\ initPc = NoInit
    /\ subscriptions = 1
    /\ timers = (IF EnableBackgroundSync THEN 1 ELSE 0)
    /\ attempts = <<>>
    /\ qop = "idle"
    /\ out = NoOut
    /\ records = [r \in RecordIds |-> [exists |-> TRUE, serverId |-> "none",
                                       syncStatus |-> "pending"]]
    /\ exec = NoExec
    /\ told = <<>>
    /\ destroyed = FALSE
    /\ table = [r \in RecordIds |-> NoRow]
    /\ watermark = NoWatermark
    /\ pull = NoPull
    /\ retry = NoRetry
    /\ pushBatchSize = PushBatchSize
    /\ feed = NoChanges

\* Background sync against a server that acknowledges what it is sent: the
\* device stays online, the ticker calls sync(), the application queues
\* operations; getPendingItems, pull() and the count lookup can fail
NextDead ==
    \/ Tick
    \/ \E i \in 1..Len(attempts) : PushFetch(i)
    \/ \E i \in 1..Len(attempts) : PushStepAcknowledged(i)
    \/ \E i \in 1..Len(attempts) : Pull(i)
    \/ \E i \in 1..Len(attempts) : SyncFinish(i)
    \/ QueueOpWrite
    \/ QueueOpCount

\* the timer keeps firing and every await of sync() resolves; getPendingItems
\* does not fail for ever
FairDead ==
    /\ WF_vars(Tick)
    /\ SF_vars(\E i \in 1..Len(attempts) : PushReads(i))
    /\ WF_vars(\E i \in 1..Len(attempts) : PushStepAcknowledged(i))
    /\ WF_vars(\E i \in 1..Len(attempts) : Pull(i))
    /\ WF_vars(\E i \in 1..Len(attempts) : SyncFinish(i))

SpecDead == InitDead /\ [][NextDead]_vars /\ FairDead

\* Batching: push() called directly, one call at a time, on synchronizers
\* constructed with any batch size, over queues that hold several rows
NextBatches ==
    \/ PushCallSized
    \/ \E i \in 1..Len(attempts) : PushFetch(i)
    \/ \E i \in 1..Len(attempts) : PushStep(i)
    \/ \E i \in 1..Len(attempts) : PushReturn(i)

SpecBatches == InitDead /\ [][NextBatches]_vars

\* retryWithBackoff called with any configuration and any fn, one call at a
\* time; fn settles and the timer of sleep fires
NextRetry ==
    \/ RetryCall
    \/ RetryFn
    \/ RetrySleep
    \/ RetrySettled

SpecRetry == Init /\ [][NextRetry]_vars /\ WF_vars(RetryFn) /\ WF_vars(RetrySleep)

\* An initialized engine, online, over a table with room for the records the
\* application creates and for one that pull() creates
InitRoomy ==
    /\ state = InitialState
    /\ held = [l \in Listeners |-> FALSE]
    /\ called = {}
    /\ listeners = <<>>
    /\ net = OnlineStatus
    /\ netSubscribed = TRUE
    /\ reconnectListeners = (IF SyncOnReconnect THEN 1 ELSE 0)
    /\ syncIntervalId = EnableBackgroundSync
    /\ isInitialized = TRUE
    /\ initPc = NoInit
    /\ subscriptions = 1
    /\ timers = (IF EnableBackgroundSync THEN 1 ELSE 0)
    /\ queue = <<>>
    /\ attempts = <<>>
    /\ qop = "idle"
    /\ out = NoOut
    /\ records = [r \in LocalIds |-> NoRecord]
    /\ exec = NoExec
    /\ told = <<>>
    /\ destroyed = FALSE
    /\ table = [r \in RecordIds |-> NoRow]
    /\ watermark = NoWatermark
    /\ pull = NoPull
    /\ retry = NoRetry
    /\ pushBatchSize = PushBatchSize
    /\ feed = NoChanges

\* Push write-backs and pull applies on one table: the application writes
\* records and queues them, the ticker syncs
NextWriteBack ==
    \/ \E r \in RecordIds, op \in {"CREATE", "UPDATE", "DELETE"} : ExecuteWrite(r, op)
    \/ ExecuteEnqueue
    \/ ExecuteCount
    \/ ExecuteSync
    \/ Tick
    \/ \E i \in 1..Len(attempts) : PushFetch(i)
    \/ \E i \in 1..Len(attempts) : PushStep(i)
    \/ \E i \in 1..Len(attempts) : Pull(i)
    \/ \E i \in 1..Len(attempts) : SyncFinish(i)

SpecWriteBack == InitRoomy /\ [][NextWriteBack]_vars

\* An initialized engine, online, constructed with a pushBatchSize of 0 or
\* more ('config.pushBatchSize ?? 50' takes every number), whose queue holds
\* rows of earlier pushes
InitConfigured ==
    /\ queue \in {q \in SeqsUpTo(QueueRows, MaxQueue + 1) : \A j \in 1..Len(q) : q[j].id = j}
    /\ state = SetPendingCount(InitialState, GetPendingCount(queue, TRUE))
    /\ held = [l \in Listeners |-> FALSE]
    /\ called = {}
    /\ listeners = <<>>
    /\ net = OnlineStatus
    /\ netSubscribed = TRUE
    /\ reconnectListeners = (IF SyncOnReconnect THEN 1 ELSE 0)
    /\ syncIntervalId = EnableBackgroundSync
    /\ isInitialized = TRUE
    /\ initPc = NoInit
    /\ subscriptions = 1
    /\ timers = (IF EnableBackgroundSync THEN 1 ELSE 0)
    /\ attempts = <<>>
    /\ qop = "idle"
    /\ out = NoOut
    /\ records = [r \in RecordIds |-> [exists |-> TRUE, serverId |-> "none",
                                       syncStatus |-> "pending"]]
    /\ exec = NoExec
    /\ told = <<>>
    /\ destroyed = FALSE
    /\ table = [r \in RecordIds |-> NoRow]
    /\ watermark = NoWatermark
    /\ pull = NoPull
    /\ retry = NoRetry
    /\ pushBatchSize \in {b \in BatchSizes : b >= 0}
    /\ feed = NoChanges

\* The syncs the ticker starts, each step of an attempt being a call that
\* returns or throws
NextConfigured ==
    \/ Tick
    \/ \E i \in 1..Len(attempts) : PushFetch(i)
    \/ \E i \in 1..Len(attempts) : PushStep(i)
    \/ \E i \in 1..Len(attempts) : Pull(i)
    \/ \E i \in 1..Len(attempts) : SyncFinish(i)

\* every await of sync() settles: getPendingItems, apiClient.push, pull() and
\* the count lookup return or throw
FairConfigured ==
    /\ WF_vars(\E i \in 1..Len(attempts) : PushFetch(i))
    /\ WF_vars(\E i \in 1..Len(attempts) : PushStep(i))
    /\ WF_vars(\E i \in 1..Len(attempts) : Pull(i))
    /\ WF_vars(\E i \in 1..Len(attempts) : SyncFinish(i))

SpecConfigured == InitConfigured /\ [][NextConfigured]_vars /\ FairConfigured

----------------------------------------------------------------------------
(* Properties of the orchestrator *)

\* C1: at most one sync attempt is past its guards at any moment, so only one
\* of any overlapping sync() calls reaches push(), pull() and the transport.
AtMostOneSync == Len(attempts) <= 1

\* C2: a sync() call rejected with 'Sync already in progress' returns
\* success = false and has no side effects: the engine state is left as it
\* was, no listener is called and the attempts in flight are not touched.
RejectedCallHasNoSideEffects ==
    [][(out'.kind = "sync" /\ out'.error = ErrInProgress)
         => (~out'.success /\ state' = state /\ called' = {} /\ attempts' = attempts)]_vars

\* a sync() call was made in this step while the detector said offline, and
\* returned at its guards (net' is the status the call saw)
OfflineCall == out'.kind = "sync" /\ ~out'.passed /\ ~IsOnline(net')

\* C3, as claimed: a sync() call made while offline starts no push and no
\* pull and returns success = false with the error 'Device is offline'.
OfflineSyncReturnsOffline ==
    [][/\ Len(attempts') > Len(attempts) => IsOnline(net')
       /\ OfflineCall => (~out'.success /\ out'.error = ErrOffline
                          /\ attempts' = attempts)]_vars

\* C3, amended: a sync() call made while offline starts no push and no pull
\* and returns success = false; its error is 'Device is offline' unless
\* isSyncing was true at the call, and then 'Sync already in progress'.
OfflineSyncIsRejected ==
    [][/\ Len(attempts') > Len(attempts) => IsOnline(net')
       /\ OfflineCall => (/\ ~out'.success
                          /\ out'.error = IF state.isSyncing THEN ErrInProgress
                                          ELSE ErrOffline
                          /\ attempts' = attempts)]_vars

\* a sync() call was rejected as offline while connected but not reachable
OfflineSyncWitness ==
    /\ out.kind = "sync" /\ ~out.passed /\ ~IsOnline(net)
    /\ net.isConnected /\ out.error = ErrOffline /\ ~out.success

PushComplete(a) ==
    \/ a.pc = "fetch" /\ GetPendingItems(queue, MaxRetries) = <<>>
    \/ a.pc = "batch" /\ a.idx + a.batchSize > Len(a.items)

BeginsPull(i) ==
    /\ i <= Len(attempts') /\ attempts'[i].pc = "pull"
    /\ Len(attempts') = Len(attempts) /\ attempts[i].pc # "pull"

\* C5: within one attempt pull begins only when push is complete, and when
\* push() throws the attempt ends there: no pull, and the status is error.
PushBeforePull ==
    [][/\ \A i \in 1..Len(attempts) : BeginsPull(i) => PushComplete(attempts[i])
       /\ (out'.kind = "sync" /\ out'.error = ErrDatabase)
            => (/\ state'.status = "error"
                /\ Len(attempts') = Len(attempts) - 1
                /\ \A i \in 1..Len(attempts') : attempts'[i].pc = "pull"
                      => \E k \in 1..Len(attempts) : attempts[k].pc = "pull")]_vars

\* push() threw while a row was pending, and the engine is in error
PushBeforePullWitness ==
    /\ out.kind = "sync" /\ out.error = ErrDatabase /\ state.status = "error"
    /\ GetPendingItems(queue, MaxRetries) # <<>>

\* C6: the status changes only along idle -> syncing, syncing -> idle,
\* syncing -> error and error -> syncing.
StatusTransitions ==
    [][state'.status # state.status
         => <<state.status, state'.status>> \in
              {<<"idle", "syncing">>, <<"syncing", "idle">>,
               <<"syncing", "error">>, <<"error", "syncing">>}]_vars

\* C7: state.error is populated exactly when status = error.
ErrorIffStatusError == (state.error # NoError) <=> (state.status = "error")

\* an attempt whose pull threw has recorded its error
ErrorRecordedWitness == state.status = "error" /\ state.error = ErrPull

PendingChangesIsQueueLength ==
    (attempts = <<>> /\ qop = "idle") => state.pendingChanges = Len(queue)

\* C10: every mutation of the engine state is followed by a call of every
\* subscribed listener, and what a listener was given is a copy: the engine
\* does not change it afterwards (a listener that still holds the object
\* this.state refers to, without having been called in this step, finds it
\* as it was).
ListenersGetCopies ==
    [][/\ state' # state => Range(listeners) \subseteq called'
       /\ \A l \in Listeners :
            (held[l] /\ held'[l] /\ l \notin called') => state' = state]_vars

\* C11: when a state change is published every subscribed listener is called,
\* also those after a listener that throws, and the throw changes neither the
\* state written nor what sync() returns.
ListenerIsolation ==
    /\ called # {} => called = Range(listeners)
    /\ out.kind = "sync"
         => (/\ ~out.threw
             /\ state.error = out.error
             /\ state.status = (IF out.success THEN "idle" ELSE "error"))

\* a sync() returned after a listener had thrown and a listener subscribed
\* after it was called all the same
ListenerIsolationWitness ==
    /\ out.kind = "sync"
    /\ \E i, j \in 1..Len(listeners) :
         i < j /\ listeners[i] \in ThrowingListeners /\ listeners[j] \in called

----------------------------------------------------------------------------
(* Properties of the queue and the push pipeline *)

\* the push() calls that wait for the answer to a batch, and the batch
Sending == {i \in 1..Len(attempts) : attempts[i].pc = "batch"}

Batch(a) == Slice(a.items, a.idx, a.batchSize)

Ids(q) == {q[i].id : i \in 1..Len(q)}

RowOf(q, id) == q[CHOOSE i \in 1..Len(q) : q[i].id = id]

\* the response acknowledges the item at position k of the batch
Acked(sc, k) == sc.kind = "success" /\ k <= Len(sc.results) /\ sc.results[k] # "err"

\* this step is the pushBatch of call i meeting sc
PushStepTakes(i, sc) ==
    LET r == PushBatch(queue, records, Batch(attempts[i]), sc)
    IN  /\ attempts' = [attempts EXCEPT
                          ![i] = AfterBatch(AddCounts(@, queue, Batch(attempts[i]), r))]
        /\ queue' = r.queue /\ records' = r.records

\* this step is an execute() call leaving its queueOperation()
LeavesEnqueue == exec.pc = "enqueue" /\ exec'.pc # "enqueue"

\* C12: an optimistic update whose record write has committed leaves exactly
\* one more queue row, the row for its record; no failure of
\* queueOperation() / addToQueue() leaves the record mutation without its row.
EnqueueAtomicWithWrite ==
    [][/\ (exec.pc = "idle" /\ exec'.pc = "enqueue") => queue' = queue
       /\ LeavesEnqueue => (/\ Len(queue') = Len(queue) + 1
                            /\ queue'[Len(queue')].recordId = exec.rec
                            /\ SubSeq(queue', 1, Len(queue)) = queue)]_vars

\* the row removed in this step was acknowledged in this step
AckedInStep(id) ==
    \E i \in Sending :
      \E k \in 1..Len(Batch(attempts[i])) :
        /\ Batch(attempts[i])[k].id = id
        /\ \E sc \in Scenarios(queue, Batch(attempts[i])) :
              Acked(sc, k) /\ PushStepTakes(i, sc)

\* the row removed in this step was removed by clearAllItems or clearFailedItems
Purged(id) ==
    /\ attempts' = attempts
    /\ \/ queue' = <<>>
       \/ /\ RowOf(queue, id).retryCount >= MaxRetries
          /\ queue' = SelectSeq(queue, LAMBDA row : row.retryCount < MaxRetries)

RetryMonotonic ==
    [][\A i \in 1..Len(queue) : \A j \in 1..Len(queue') :
         queue'[j].id = queue[i].id => queue'[j].retryCount >= queue[i].retryCount]_vars

\* a row has been bumped by a failed push
RetryMonotonicWitness ==
    \E i \in 1..Len(queue) : queue[i].retryCount >= 1 /\ queue[i].errorMessage # NoError

\* C15: an item whose retryCount has reached maxRetries is in no batch that
\* is sent, is not returned by getPendingItems, stays in the queue until
\* clearFailedItems or clearAllItems removes it, and is reported by
\* getFailedItems.
DeadLetterStable ==
    [][/\ \A i \in 1..Len(queue) : queue[i].retryCount >= MaxRetries
            => (/\ \A k \in 1..Len(GetPendingItems(queue, MaxRetries)) :
                      GetPendingItems(queue, MaxRetries)[k].id # queue[i].id
                /\ \E k \in 1..Len(GetFailedItems(queue, MaxRetries)) :
                      GetFailedItems(queue, MaxRetries)[k].id = queue[i].id
                /\ Has(queue', queue[i].id) \/ Purged(queue[i].id))
       /\ \A i \in 1..Len(attempts') :
            (/\ Len(attempts') = Len(attempts)
             /\ attempts'[i].pc = "batch" /\ attempts'[i] # attempts[i])
              => \A k \in 1..Len(Batch(attempts'[i])) :
                   Has(queue', Batch(attempts'[i])[k].id)
                     => RowOf(queue', Batch(attempts'[i])[k].id).retryCount < MaxRetries]_vars

\* the step in which push() of call i gets its pending items
Fetches(i) ==
    /\ i <= Len(attempts') /\ Len(attempts') = Len(attempts)
    /\ attempts[i].pc = "fetch" /\ attempts'[i].pc # "fetch"

Queued(batch) == \A k \in 1..Len(batch) : Has(queue, batch[k].id)

\* the positions of the batch whose result carries an error
Errors(batch, sc) == {k \in 1..Len(batch) : k <= Len(sc.results) /\ sc.results[k] = "err"}

\* the row of item k after the pushBatch is the row before it, bumped with msg
Bumped(r, batch, k, msg) ==
    /\ Has(r.queue, batch[k].id)
    /\ RowOf(r.queue, batch[k].id) =
          [RowOf(queue, batch[k].id) EXCEPT !.retryCount = @ + 1, !.errorMessage = msg]

\* C17: for a batch answered with success = true, pushBatch bumps exactly the
\* items whose positional result carries an error and keeps them queued,
\* deletes exactly the other items after the write-back to their records, and
\* returns the sizes of the two sets as failedCount and pushedCount.
PartialFailureExact ==
    \A i \in Sending : \A sc \in Scenarios(queue, Batch(attempts[i])) :
      LET batch == Batch(attempts[i])
          r == PushBatch(queue, records, batch, sc)
      IN  (sc.kind = "success" /\ Queued(batch))
            => /\ \A k \in Errors(batch, sc) : Bumped(r, batch, k, ErrItem)
               /\ \A k \in (1..Len(batch)) \ Errors(batch, sc) :
                     /\ ~Has(r.queue, batch[k].id)
                     /\ (records[batch[k].recordId].exists /\ k \notin sc.wbFail)
                           => r.records[batch[k].recordId].syncStatus = "synced"
               /\ r.failed = Cardinality(Errors(batch, sc))
               /\ r.pushed = Len(batch) - Cardinality(Errors(batch, sc))

\* the message the catch block of pushBatch records for a batch-wide failure
BatchError(sc) == IF sc.kind = "throw" THEN ErrNetwork ELSE ErrPushFailed

\* C18, as claimed: when the transport throws or answers success = false no
\* item of the batch is acknowledged, every item has its retryCount increased
\* by one with the error text recorded, and the batch contributes its full
\* length to failedCount.
BatchFailureBumpsAll ==
    \A i \in Sending : \A sc \in Scenarios(queue, Batch(attempts[i])) :
      LET batch == Batch(attempts[i])
          r == PushBatch(queue, records, batch, sc)
      IN  (sc.kind \in {"throw", "fail"} /\ Queued(batch))
            => /\ r.pushed = 0 /\ r.records = records
               /\ \A k \in 1..Len(batch) : Bumped(r, batch, k, BatchError(sc))
               /\ r.failed = Len(batch)

\* C18, amended: when the transport throws or answers success = false no item
\* of the batch is acknowledged, every item whose incrementRetry succeeds has
\* its retryCount increased by one with the error text recorded, an item whose
\* incrementRetry throws keeps its row as it was, and the batch contributes
\* the number of items bumped to failedCount.
BatchFailureBumps ==
    \A i \in Sending : \A sc \in Scenarios(queue, Batch(attempts[i])) :
      LET batch == Batch(attempts[i])
          r == PushBatch(queue, records, batch, sc)
          bumped == {k \in 1..Len(batch) : Has(queue, batch[k].id) /\ k \notin sc.catchFail}
      IN  sc.kind \in {"throw", "fail"}
            => /\ r.pushed = 0 /\ r.records = records
               /\ Ids(r.queue) = Ids(queue)
               /\ \A k \in bumped : Bumped(r, batch, k, BatchError(sc))
               /\ \A k \in (1..Len(batch)) \ bumped :
                     Has(queue, batch[k].id)
                       => RowOf(r.queue, batch[k].id) = RowOf(queue, batch[k].id)
               /\ r.failed = Cardinality(bumped)

\* a push() has ended and left a row bumped with the batch-wide error
BatchFailureWitness ==
    /\ \E i \in 1..Len(attempts) : attempts[i].pc = "done"
    /\ \E j \in 1..Len(queue) :
          queue[j].retryCount >= 1 /\ queue[j].errorMessage \in {ErrNetwork, ErrPushFailed}

\* C19: when the server acknowledges an item whose local record is gone or
\* whose write-back fails, pushBatch changes no local record for it, still
\* removes the queue row, counts the item as pushed and ends without an
\* exception.
AckWithoutRecord ==
    \A i \in Sending : \A sc \in Scenarios(queue, Batch(attempts[i])) :
      LET batch == Batch(attempts[i])
          r == PushBatch(queue, records, batch, sc)
      IN  \A k \in 1..Len(batch) :
            (/\ Acked(sc, k) /\ Has(queue, batch[k].id)
             /\ ~records[batch[k].recordId].exists \/ k \in sc.wbFail)
              => /\ r.records[batch[k].recordId] = records[batch[k].recordId]
                 /\ ~Has(r.queue, batch[k].id)
                 /\ r.pushed >= 1
                 /\ ~r.caught

\* C20: a record whose sync_status is synced has a server_id.
SyncedHasServerId ==
    \A r \in RecordIds :
      records[r].syncStatus = "synced" => records[r].serverId # "none"

----------------------------------------------------------------------------
(* Properties of the pull pipeline *)

\* text is the decimal representation of n
Denotes(text, n) ==
    /\ Len(text) >= 1
    /\ n < 10 ^ Len(text)
    /\ Len(text) > 1 => text[1] # 0
    /\ \A i \in 1..Len(text) : text[i] = (n \div (10 ^ (Len(text) - i))) % 10

\* C21 (as stated): once a pull() has returned with response timestamp T the
\* stored watermark is T, and the request of the next pull() carries
\* lastSyncAt = T (null before any pull() has returned).
WatermarkIsLastTimestamp ==
    /\ (pull.pc \in {"idle", "read", "fetch"} /\ pull.last # Null)
          => (watermark.present /\ Denotes(watermark.text, pull.last))
    /\ pull.pc = "fetch" => pull.lastSyncAt = pull.last

\* C21 (amended): the stored watermark is the response timestamp of the latest
\* pull() that returned and whose watermark write succeeded (nothing is stored
\* before there is one); the request of a pull() carries that timestamp as
\* lastSyncAt when its read of the watermark succeeds, and null when the read
\* fails or nothing is stored.
WatermarkIsLastStored ==
    /\ IF pull.stored = Null THEN watermark = NoWatermark
       ELSE watermark.present /\ Denotes(watermark.text, pull.stored)
    /\ pull.pc = "fetch" => pull.lastSyncAt = (IF pull.read THEN pull.stored ELSE Null)
    /\ (pull.pc = "fetch" /\ ~watermark.present) => pull.lastSyncAt = Null

\* a request carries a timestamp of several digits that an earlier pull()
\* stored, after a later pull() has failed to store its own
WatermarkWitness ==
    /\ pull.pc = "fetch" /\ pull.read
    /\ pull.lastSyncAt >= 10
    /\ pull.last # pull.stored

\* C22: the pulledCount that pull() returns is the number of entries in the
\* created, updated and deleted stanzas of the response, whatever became of
\* each entry.
PulledCountIsEntryCount ==
    pull.pc = "store"
        => pull.pulledCount = Len(feed.created) + Len(feed.updated) + Len(feed.deleted)

\* the entries of the log of a write transaction that matched a local row by
\* server_id, were applied without an exception, and whose row no later entry
\* touched
Matched(log) ==
    {k \in 1..Len(log) :
        /\ log[k].stanza \in {"created", "updated"}
        /\ log[k].rid # 0
        /\ ~log[k].failed
        /\ \A j \in (k + 1)..Len(log) : log[j].rid # log[k].rid}

\* when to ask, and what the verdict 'local' or 'server' makes of the row
AskedAndApplied(e, row) ==
    /\ e.asked <=> (/\ e.local.syncStatus = "pending"
                    /\ e.local.serverUpdatedAt # 0
                    /\ e.server.updated_at > e.local.serverUpdatedAt)
    /\ (e.asked /\ e.verdict.kind = "local") => row = e.local
    /\ (e.asked /\ e.verdict.kind = "server") =>
          /\ row.title = e.server.title
          /\ row.serverId = e.server.id
          /\ row.serverUpdatedAt = e.server.updated_at
          /\ row.syncStatus = "synced"

\* what a merged mapping makes of the row
MergedApplied(e, row) ==
    (e.asked /\ e.verdict.kind = "merged") =>
        /\ row.title = e.verdict.title
        /\ row.serverId = e.server.id
        /\ row.serverUpdatedAt = e.server.updated_at
        /\ row.syncStatus = "synced"

\* C23: for a server record S matched to a local row by server_id the
\* resolver is asked exactly when the row is pending, its server_updated_at is
\* set and S.updated_at is greater; 'local' leaves the row as it was, 'server'
\* overwrites it from S, a merged mapping overwrites it from the mapping, and
\* the row then carries the server metadata of S.
ConflictContract ==
    [][(pull.pc = "fetch" /\ pull'.pc = "store") =>
          \A k \in Matched(pull'.log) :
              /\ AskedAndApplied(pull'.log[k], table'[pull'.log[k].rid])
              /\ MergedApplied(pull'.log[k], table'[pull'.log[k].rid])]_vars

\* C30: when the watermark write of the previous pull() failed and the server
\* answers with the same change set again, applying it once more creates no
\* local row and changes no domain field of a row, whatever the application
\* did to the rows in between.
RedundantPullHarmless ==
    [][(pull.pc = "fetch" /\ pull'.pc = "store" /\ pull.last # pull.stored) =>
          \A r \in RecordIds :
              /\ table'[r].exists => table[r].exists
              /\ (table[r].exists /\ table'[r].exists) => table'[r].title = table[r].title]_vars

----------------------------------------------------------------------------
(* Properties of the triggers and of the lifecycle *)

\* C24: a tick of the background ticker starts a sync exactly when the device
\* is online and no sync is in progress; a tick while offline changes nothing
\* and reaches no transport, and a tick during a sync starts no second
\* attempt.
TickSyncsWhenIdle ==
    [][Tick => /\ (Len(attempts') > Len(attempts)) <=> (IsOnline(net) /\ attempts = <<>>)
               /\ ~IsOnline(net) => (state' = state /\ attempts' = attempts)
               /\ attempts # <<>> => attempts' = attempts]_vars

\* a network event that changes isConnected or isInternetReachable, with the
\* reconnect listener registered, and whose new status is connected
Reconnect == StatusChanged(net, net') /\ reconnectListeners > 0 /\ net'.isConnected

\* C25: with syncOnReconnect, a network transition to a connected status on
\* an idle engine initiates exactly one sync(), and a reconnect event that
\* arrives while a sync is in flight initiates none.
ReconnectSyncsOnce ==
    [][Reconnect =>
          /\ attempts = <<>> =>
                (Len(attempts') = 1 /\ out'.kind = "none")
                \/ (attempts' = <<>> /\ out'.kind = "sync")
          /\ attempts # <<>> => (attempts' = attempts /\ out'.kind = "none")]_vars

\* C26: once destroy() has been called (and initialize() not called again),
\* no tick and no network event initiates a sync(), whatever initialize() or
\* sync() was in flight when destroy() ran; destroy() itself leaves a sync in
\* flight alone.
DestroyStopsTriggers ==
    [][/\ (destroyed /\ (Tick \/ NetworkEvent)) => (attempts' = attempts /\ out'.kind = "none")
       /\ Destroy => attempts' = attempts]_vars

\* C27: an event reaches the registered NetworkDetector listener exactly once
\* when it changes isConnected or isInternetReachable of the stored status,
\* and not at all otherwise (a change of the connection type alone is not
\* reported); the device counts as online exactly when isConnected is true
\* and isInternetReachable is not false: an offline sync() is rejected, an
\* online one on an idle engine starts.
ListenersOnObservableChange ==
    [][/\ ((NetworkEvent \/ net' # net) /\ reconnectListeners > 0) =>
              told' = (IF \/ net'.isConnected # net.isConnected
                          \/ net'.isInternetReachable # net.isInternetReachable
                       THEN <<net'>> ELSE <<>>)
       /\ (out'.kind = "sync" /\ out'.error = ErrOffline)
              => ~(net'.isConnected /\ net'.isInternetReachable # "false")
       /\ Len(attempts') > Len(attempts)
              => (net'.isConnected /\ net'.isInternetReachable # "false")]_vars

\* the listener was told of a status that is online although reachability is
\* unknown, and the sync it asked for is in flight
ListenersWitness ==
    /\ told = <<net>>
    /\ net.isConnected /\ net.isInternetReachable = "null"
    /\ attempts # <<>>

\* a step of the push() of attempt i, which is sending a batch
PushAdvances(i) ==
    /\ i \in Sending
    /\ Len(attempts') = Len(attempts)
    /\ attempts'[i] # attempts[i]

\* push() reads the pending list once: while it sends, the list it works on
\* gains no item, and its step leaves alone every row that is not on the list
ReadsPendingOnce ==
    \A i \in Sending :
        /\ (Len(attempts') = Len(attempts) /\ attempts'[i].pc = "batch")
              => attempts'[i].items = attempts[i].items
        /\ PushAdvances(i) =>
              \A k \in 1..Len(queue) :
                  queue[k].id \notin Ids(attempts[i].items)
                      => \E j \in 1..Len(queue') : queue'[j] = queue[k]

InitializesOnce ==
    /\ subscriptions <= 1
    /\ reconnectListeners <= 1
    /\ timers <= 1
    /\ isInitialized => subscriptions = 1

\* C32: the watermark is written only after all stanzas have been applied
\* (by the step that follows the write transaction), and when the transport
\* or the write transaction throws, pull() rethrows, the stored watermark
\* keeps its value, and the enclosing sync attempt ends with status error.
WatermarkAfterStanzas ==
    [][/\ watermark' # watermark => (pull.pc = "store" /\ pull'.outcome = "returned")
       /\ (pull.pc = "fetch" /\ pull'.pc = "idle")
             => (pull'.outcome = "thrown" /\ watermark' = watermark)
       /\ \A i \in 1..Len(attempts) :
             (attempts[i].pc = "pulling" /\ pull.outcome = "thrown" /\ pull'.outcome = "none")
               => /\ state'.status = "error" /\ ~state'.isSyncing /\ state'.error = ErrPull
                  /\ Len(attempts') = Len(attempts) - 1
                  /\ out'.kind = "sync" /\ ~out'.success /\ out'.error = ErrPull
                  /\ watermark' = watermark]_vars

\* a sync attempt has ended in error because its pull() threw, and the
\* watermark an earlier pull stored is still there
WatermarkKeptWitness ==
    /\ state.status = "error" /\ state.error = ErrPull /\ attempts = <<>>
    /\ out.kind = "sync" /\ out.error = ErrPull
    /\ watermark.present /\ pull.stored # Null /\ Denotes(watermark.text, pull.stored)
    /\ \E r \in RecordIds : table[r].exists

\* C33: push() partitions the n pending items, in queue order, into contiguous
\* batches of at most batchSize items, sends them one after another, every
\* item in exactly one batch, and ends after exactly ceil(n / batchSize)
\* transport calls, for every batch size the constructor accepts: the batch of
\* transport call k + 1 is the items k * batchSize + 1 .. (k + 1) * batchSize
\* of the list (as far as it goes) and is not empty, and the call after which
\* push() ends is the first one that reaches the end of the list.
BatchesPartition ==
    /\ [](\A i \in Sending :
            LET a == attempts[i]
                n == Len(a.items)
                from == a.calls * a.batchSize
            IN  /\ from < n
                /\ Batch(a) # <<>>
                /\ Batch(a) = SubSeq(a.items, from + 1,
                                     IF from + a.batchSize < n THEN from + a.batchSize ELSE n))
    /\ [][\A i \in 1..Len(attempts) :
            (attempts[i].pc = "batch" /\ Len(attempts') = Len(attempts)
             /\ attempts'[i].pc # "batch")
              => (attempts[i].calls + 1) * attempts[i].batchSize >= Len(attempts[i].items)]_vars

\* the delays the claim names for k sleeps: min(baseDelay * 2^attempt,
\* maxDelay or 30000) for attempt 0 .. k - 1
ClaimedSleeps(config, k) ==
    [j \in 1..k |->
        LET cap == IF config.maxDelay # 0 THEN config.maxDelay ELSE 30000
            d == config.baseDelay * Pow2(j - 1)
        IN  IF d < cap THEN d ELSE cap]

\* what C34 says of a call while it runs and when it has settled
RetryAsClaimed ==
    /\ retry.pc # "idle" => retry.calls <= retry.config.maxRetries
    /\ retry.pc = "sleep" => retry.calls < retry.config.maxRetries
    /\ retry.pc = "fn" => retry.sleeps = ClaimedSleeps(retry.config, retry.calls - 1)
    /\ retry.pc = "sleep" => retry.sleeps = ClaimedSleeps(retry.config, retry.calls)
    /\ retry.pc \in {"returned", "rejected"} =>
          /\ retry.calls >= 1
          /\ retry.sleeps = ClaimedSleeps(retry.config, retry.calls - 1)
    /\ retry.pc = "rejected" =>
          /\ retry.calls = retry.config.maxRetries
          /\ retry.error = retry.calls

\* C34, as claimed: retryWithBackoff terminates for every config, invokes fn
\* at least once and at most maxRetries times, returns the first success
\* without another call, sleeps the capped delay only between two attempts
\* and rejects with the last error after maxRetries failures.
RetryTerminates ==
    /\ [](RetryAsClaimed)
    /\ (retry.pc \in {"fn", "sleep"}) ~> (retry.pc \in {"returned", "rejected"})

\* C34, amended: the same for every config whose maxRetries is a positive
\* integer.
RetryTerminatesPositive ==
    /\ [](retry.config.maxRetries >= 1 => RetryAsClaimed)
    /\ (retry.pc \in {"fn", "sleep"}) ~> (retry.pc \in {"returned", "rejected"})

\* a call has given up after three failures and two capped sleeps, with the
\* error of the third invocation
RetryWitness ==
    /\ retry.pc = "rejected" /\ retry.calls = 3 /\ retry.error = 3
    /\ retry.config.baseDelay = 20000 /\ retry.config.maxDelay = 0
    /\ retry.sleeps = <<20000, 30000>>

\* C35: within one push() call the retryCount of each queue item increases by
\* at most 1, whatever the transport answers and whichever queue write fails:
\* no step of a push() raises a retryCount by more than 1 (with a batch size of
\* 1 or more an item is in one batch of the call only).
RetryBumpedOncePerPush ==
    [][\A id \in ItemIds :
         (Has(queue, id) /\ Has(queue', id))
           => RowOf(queue', id).retryCount <= RowOf(queue, id).retryCount + 1]_vars

\* C36: at most one local record that is not deleted carries a given
\* server_id, after any interleaving of push write-backs and pull applies.
UniqueServerId ==
    \A id \in ServerIds : Cardinality(ByServerId(records, id)) <= 1

\* C37: pull never overwrites a local record whose sync_status is 'pending'
\* (its domain fields, or its sync_status to 'synced') unless the conflict
\* resolver was consulted for that record and returned 'server' or a merged
\* mapping.
PendingKeptUnlessResolved ==
    [][(pull.pc = "fetch" /\ pull'.pc = "store")
         => \A r \in DOMAIN table :
               (/\ table[r].exists /\ table[r].syncStatus = "pending"
                /\ table'[r].exists /\ table'[r] # table[r])
                 => \E k \in 1..Len(pull'.log) :
                       /\ pull'.log[k].rid = r
                       /\ pull'.log[k].asked
                       /\ pull'.log[k].verdict.kind \in {"server", "merged"}]_vars

\* C38: if an entry of a pull response could not be applied (its create,
\* update or delete threw and was skipped), the watermark is not advanced to
\* that response's timestamp.
FailedEntryKeepsWatermark ==
    [][(pull.pc = "store" /\ \E k \in 1..Len(pull.log) : pull.log[k].failed)
         => watermark' = watermark]_vars

\* C39: every sync attempt that is past its guards eventually finishes and
\* leaves the engine out of 'syncing' (isSyncing false, status idle or
\* error), provided every call it awaits returns or throws; and isSyncing is
\* never true while no sync attempt is in flight.
SyncAttemptEnds ==
    /\ [](state.isSyncing => attempts # <<>>)
    /\ (attempts # <<>>)
         ~> (attempts = <<>> /\ ~state.isSyncing /\ state.status \in {"idle", "error"})

\* C40: the SyncResult that sync() returns reports what the attempt did:
\* stats.pushedCount is the number of queue items acknowledged and removed
\* during the attempt and stats.failedCount the number of items whose
\* retryCount was increased, also when the attempt fails in its pull phase.
StatsReportAttempt ==
    [][(out'.kind = "sync" /\ out'.passed)
         => \E i \in 1..Len(attempts) :
               /\ attempts' = Remove(attempts, i)
               /\ out'.pushedCount = attempts[i].removed
               /\ out'.failedCount = attempts[i].bumped]_vars

TypeOK ==
    /\ state.status \in {"idle", "syncing", "error"}
    /\ state.pendingChanges \in 0..(MaxQueue + 1)
    /\ state.lastSyncAt \in 0..MaxClock
    /\ Len(attempts) <= MaxProcs
    /\ \A i \in 1..Len(attempts) :
          attempts[i].pc \in {"fetch", "batch", "pull", "pulling", "count", "done"}
    /\ Len(queue) <= MaxQueue + 1
    /\ \A i \in 1..Len(queue) : queue[i].retryCount \in Nat /\ queue[i].recordId \in RecordIds
    /\ \A r \in DOMAIN records : records[r].syncStatus \in {"none", "pending", "synced"}
    /\ exec.pc \in {"idle", "enqueue", "count", "sync"}
    /\ net \in NetStates
    /\ told \in {<<>>, <<net>>}
    /\ destroyed \in BOOLEAN
    /\ pull.pc \in {"idle", "read", "fetch", "store"}
    /\ watermark.present \in BOOLEAN
    /\ Len(feed.created) + Len(feed.updated) + Len(feed.deleted) <= MaxChanges
    /\ \A r \in RecordIds : table[r].exists \in BOOLEAN

====
